---- MODULE Spec2Model ----
(***************************************************************************)
(* Model of the Tally voucher codec of the BackendAi repository:           *)
(*   src/tally_service.py          generate_tally_xml and its helpers      *)
(*   src/tally_backend_service.py  TallyBackendService (Excel import)      *)
(*                                                                         *)
(* Representation.                                                         *)
(*   - Text is a TLA+ string; Python string operations are modelled by     *)
(*     Len, SubSeq, Head, Tail and \o on strings.                          *)
(*   - Money is an integer number of paise (0.01 rupee): every amount the  *)
(*     code renders goes through a 2-decimal rounding first, and the       *)
(*     binary floating point noise of the intermediate sums (at most a few *)
(*     1e-16 relative) is far below the 1e-10 bias of round_val, so the    *)
(*     rendered decimals are the exact decimal results.                    *)
(*   - Quantities are integers in units of 0.01; tax rates are integers in *)
(*     units of 0.005 percent (RateUnit per percent), so that half of a    *)
(*     rate given with two decimals is again an integer.                   *)
(*   - A rendered document is a record of the parts the claims talk about: *)
(*     the sequence of masters of the "All Masters" block and the voucher  *)
(*     with its sequence of LEDGERENTRIES.LIST blocks.                     *)
(***************************************************************************)
EXTENDS Integers, Sequences, FiniteSets, TLC

VARIABLES
    fn,                 \* the encoder the caller invokes
    invoice,            \* generate_tally_xml: the invoice object
    line_items,         \* generate_tally_xml: the list of line items
    vouchers,           \* generate_excel_import_xml: the voucher batch
    create_masters,     \* generate_excel_import_xml: the create_masters flag
    existing_ledgers,   \* the caller's known-ledger set object
    calls,              \* number of calls made with these arguments
    xml,                \* the document returned by the latest encode call
    today,              \* the day datetime.now() falls on, as YYYYMMDD
    uuid_calls,         \* number of uuid.uuid4() values drawn so far
    payload,            \* the XML text the caller hands to the gateway
    outcome,            \* how the latest requests.post ended
    result,             \* the value the latest push returned
    http_posts,         \* number of requests.post calls made so far
    text_arg,           \* the argument of the text function under call
    returned,           \* what the latest call returned or raised
    bank_data,          \* generate_bank_statement_xml: the data dict
    max_attempts,       \* retry_with_backoff: the max_attempts argument
    base_delay,         \* retry_with_backoff: the base_delay argument
    service,            \* how the services a call depends on behave
    invocations,        \* invocations of the wrapped function in the latest call
    sleeps,             \* the time.sleep durations of the latest call, in order
    _uploaded_files,    \* genai_service._uploaded_files
    cleanup_calls,      \* the URIs cleanup_uploaded_file was called with
    upload_dir,         \* the files in UPLOAD_DIR
    written             \* the files the latest request wrote to UPLOAD_DIR

vars == <<fn, invoice, line_items, vouchers, create_masters,
          existing_ledgers, calls, xml, today, uuid_calls,
          payload, outcome, result, http_posts,
          text_arg, returned, bank_data, max_attempts, base_delay, service,
          invocations, sleeps, _uploaded_files, cleanup_calls, upload_dir, written>>

\* the state of the text functions, the retry wrapper, the parsers and the
\* request handlers
svc_vars == <<text_arg, returned, bank_data, max_attempts, base_delay, service,
              invocations, sleeps, _uploaded_files, cleanup_calls, upload_dir, written>>

(***************************************************************************)
(* Bounds of the model.                                                    *)
(***************************************************************************)
MaxItems == 2           \* line items per invoice / per Excel voucher
MaxVouchers == 2        \* vouchers per Excel batch
MaxCalls == 2           \* encode calls the caller makes with one request
MaxTxns == 2            \* transactions per bank statement
MaxAttempts == 3        \* max_attempts of a wrapped function

(***************************************************************************)
(* Units.                                                                  *)
(***************************************************************************)
RateUnit == 2 * 100     \* rate units per percent (unit = 0.005 percent)
QtyUnit == 10 * 10      \* quantity units per 1 (unit = 0.01)

(***************************************************************************)
(* Generic helpers.                                                        *)
(***************************************************************************)
Abs(n) == IF n < 0 THEN -n ELSE n

\* round(x, 2) of x = num/den paise after adding the small positive bias
\* (1e-10 in round_val, 1e-9 in round_amount): a tie goes towards +infinity,
\* everything else to the nearest paisa.  den > 0.
RoundHalfUp(num, den) == (2 * num + den) \div (2 * den)

RECURSIVE SeqSum(_)
SeqSum(s) == IF s = <<>> THEN 0 ELSE Head(s) + SeqSum(Tail(s))

\* A Python dict in insertion order: a sequence of <<key, value>> pairs.
DictHas(d, k) == \E i \in 1..Len(d) : d[i][1] = k
DictGet(d, k, default) ==
    IF DictHas(d, k)
    THEN d[CHOOSE i \in 1..Len(d) : d[i][1] = k][2]
    ELSE default
\* d[k] = v : an existing key keeps its position, a new key goes last
DictSet(d, k, v) ==
    IF DictHas(d, k)
    THEN [i \in 1..Len(d) |-> IF d[i][1] = k THEN <<k, v>> ELSE d[i]]
    ELSE Append(d, <<k, v>>)

\* getattr(obj, field, None) or default : an absent field and a falsy value
\* (0, 0.0, '') both give the default
GetOr(obj, field, default, falsy) ==
    IF field \in DOMAIN obj /\ obj[field] # falsy THEN obj[field] ELSE default

(***************************************************************************)
(* String helpers (str.strip, str.upper, startswith).                      *)
(***************************************************************************)
\* str.isspace for the characters that occur
IsSpace(c) == c \in {" ", "\n", "\t", "\r"}

RECURSIVE LStrip(_)
LStrip(s) == IF s # "" /\ IsSpace(Head(s)) THEN LStrip(Tail(s)) ELSE s

RECURSIVE RStrip(_)
RStrip(s) ==
    IF s # "" /\ IsSpace(SubSeq(s, Len(s), Len(s)))
    THEN RStrip(SubSeq(s, 1, Len(s) - 1))
    ELSE s

Strip(s) == RStrip(LStrip(s))

LowerChars == "abcdefghijklmnopqrstuvwxyz"
UpperChars == "ABCDEFGHIJKLMNOPQRSTUVWXYZ"

UpperChar(c) ==
    IF \E i \in 1..26 : SubSeq(LowerChars, i, i) = c
    THEN LET i == CHOOSE j \in 1..26 : SubSeq(LowerChars, j, j) = c
         IN  SubSeq(UpperChars, i, i)
    ELSE c

RECURSIVE Upper(_)
Upper(s) == IF s = "" THEN "" ELSE UpperChar(Head(s)) \o Upper(Tail(s))

StartsWith(s, p) == Len(s) >= Len(p) /\ SubSeq(s, 1, Len(p)) = p

(***************************************************************************)
(* Number formatting.                                                      *)
(***************************************************************************)
\* str(int(f))
IntStr(n) == ToString(n)

\* Python's str() of a rate that is not a whole number, e.g. 2.5 -> "2.5",
\* 0.25 -> "0.25", 0.125 -> "0.125" (r in rate units, r % RateUnit # 0)
FloatStr(r) ==
    LET a == Abs(r)
        whole == a \div RateUnit
        frac == ((a % RateUnit) * 1000) \div RateUnit      \* 3 decimals
        d1 == frac \div 100
        d2 == (frac \div 10) % 10
        d3 == frac % 10
        digits == IF d3 # 0 THEN IntStr(d1) \o IntStr(d2) \o IntStr(d3)
                  ELSE IF d2 # 0 THEN IntStr(d1) \o IntStr(d2)
                  ELSE IntStr(d1)
    IN  (IF r < 0 THEN "-" ELSE "") \o IntStr(whole) \o "." \o digits

\* f"{int(rate) if rate == int(rate) else rate}"
RateKeyStr(r) == IF r % RateUnit = 0 THEN IntStr(r \div RateUnit) ELSE FloatStr(r)

\* format_rate: a whole rate prints as an integer, any other rate with one
\* decimal ('.1f', trailing zero and point stripped).  '.1f' rounds to the
\* nearest tenth; an exact tie (x.x5) that is exactly representable in binary
\* (x.25, x.75) goes to the even tenth.
format_rate(r) ==
    IF r % RateUnit = 0 THEN IntStr(r \div RateUnit)
    ELSE LET a == Abs(r)
             tenth == RateUnit \div 10
             q == a \div tenth
             rem == a % tenth
             t == IF 2 * rem < tenth THEN q
                  ELSE IF 2 * rem > tenth THEN q + 1
                  ELSE IF q % 2 = 0 THEN q ELSE q + 1
             body == IF t % 10 = 0 THEN IntStr(t \div 10)
                     ELSE IntStr(t \div 10) \o "." \o IntStr(t % 10)
         IN  (IF r < 0 THEN "-" ELSE "") \o body

(***************************************************************************)
(* src/tally_service.py : helpers.                                         *)
(***************************************************************************)
RECURSIVE ReplaceChar(_, _, _)
\* str.replace(c, by) for a one-character c
ReplaceChar(s, c, by) ==
    IF s = "" THEN ""
    ELSE (IF Head(s) = c THEN by ELSE Head(s)) \o ReplaceChar(Tail(s), c, by)

Quote == SubSeq("\"", 1, 1)

esc(text) ==
    IF text = "" THEN ""
    ELSE ReplaceChar(ReplaceChar(ReplaceChar(ReplaceChar(ReplaceChar(
             text, "&", "&amp;"), "<", "&lt;"), ">", "&gt;"),
             Quote, "&quot;"), "'", " ")

\* the character class [a-zA-Z0-9\s\-\.\(\)%] kept by clean_name
AllowedPunct == "-.()%"
DigitChars == "0123456789"
InStr(c, set) == \E i \in 1..Len(set) : SubSeq(set, i, i) = c
IsAllowed(c) ==
    \/ InStr(c, LowerChars) \/ InStr(c, UpperChars) \/ InStr(c, DigitChars)
    \/ IsSpace(c) \/ InStr(c, AllowedPunct)

RECURSIVE KeepAllowed(_)
\* re.sub(r'[^a-zA-Z0-9\s\-\.\(\)%]', '', s)
KeepAllowed(s) ==
    IF s = "" THEN ""
    ELSE (IF IsAllowed(Head(s)) THEN Head(s) ELSE "") \o KeepAllowed(Tail(s))

RECURSIVE CollapseSpaces(_)
\* re.sub(r'\s+', ' ', s)
CollapseSpaces(s) ==
    IF s = "" THEN ""
    ELSE IF IsSpace(Head(s))
         THEN " " \o CollapseSpaces(LStrip(s))
         ELSE Head(s) \o CollapseSpaces(Tail(s))

NameLimit == 50

clean_name(text) ==
    IF text = "" THEN "Unknown Item"
    ELSE SubSeq(Strip(CollapseSpaces(KeepAllowed(text))), 1,
                IF Len(Strip(CollapseSpaces(KeepAllowed(text)))) < NameLimit
                THEN Len(Strip(CollapseSpaces(KeepAllowed(text))))
                ELSE NameLimit)

\* round_val(num) for num = n/d paise
round_val(n, d) == RoundHalfUp(n, d)

\* STATE_MAP.get(code, '')
STATE_MAP(code) ==
    CASE code = "27" -> "Maharashtra"
      [] code = "29" -> "Karnataka"
      [] code = "07" -> "Delhi"
      [] OTHER -> ""

get_state_name(gstin) ==
    IF gstin = "" \/ Len(gstin) < 2 THEN "" ELSE STATE_MAP(SubSeq(gstin, 1, 2))

HomeStateCode == "27"
GstinLength == 15

\* IsInterState without the length test
IsInterState_NoLengthTest(party_gstin) ==
    Len(party_gstin) >= 2 /\ SubSeq(party_gstin, 1, 2) # HomeStateCode

\* is_valid_gstin and party_gstin[:2] != "27"
IsInterState(party_gstin) ==
    Len(party_gstin) = GstinLength /\ SubSeq(party_gstin, 1, 2) # HomeStateCode

(***************************************************************************)
(* src/tally_service.py : generate_tally_xml.                              *)
(***************************************************************************)
\* is_sales = False (line 73): the function only encodes purchase vouchers
is_sales == FALSE

\* item_sign = -1 if not is_sales else 1 (assigned, never used by the code)
item_sign == IF ~is_sales THEN -1 ELSE 1

\* float(getattr(item, 'gst_rate', None) or 18)
DefaultGstRate == 18
ItemGstRate(item) == GetOr(item, "gst_rate", DefaultGstRate * RateUnit, 0)
\* float(getattr(item, 'qty', None) or 1)
ItemQty(item) == GetOr(item, "qty", 1 * QtyUnit, 0)
\* float(getattr(item, 'rate', None) or 0), in paise
ItemRate(item) == GetOr(item, "rate", 0, 0)

\* amount = round_val(qty * item_rate)
LineAmount(item) == round_val(ItemQty(item) * ItemRate(item), QtyUnit)
\* LineTax that truncates the tax to whole paise instead of rounding it
LineTax_Truncated(item) ==
    (LineAmount(item) * ItemGstRate(item)) \div (RateUnit * 100)

\* line_tax = round_val(amount * (rate / 100))
LineTax(item) == round_val(LineAmount(item) * ItemGstRate(item), RateUnit * 100)

PurchaseLedgerName(rate) == "PURCHASE @" \o RateKeyStr(rate) \o "%"
IgstName(rate) == "Input IGST " \o format_rate(rate) \o "%"
\* half_rate = rate / 2 ; rates carry two decimals, so the unit divides evenly
HalfRate(rate) == rate \div 2
CgstName(rate) == "Input CGST@" \o format_rate(HalfRate(rate)) \o "%"
SgstName(rate) == "Input SGST@" \o format_rate(HalfRate(rate)) \o "%"

\* the split of one line's tax (lines 209-210)
HalfTax(line_tax) == round_val(line_tax, 2)

\* Remainder obtained by a second, independent rounding of half the tax
Remainder_SecondRounding(line_tax) == round_val(line_tax, 2)

Remainder(line_tax) == round_val(line_tax - HalfTax(line_tax), 1)

\* TaxPostings that routes an inter-state line to the Central/State pair
TaxPostings_AlwaysSplit(rate, line_tax, inter) ==
    << <<CgstName(rate), HalfTax(line_tax)>>,
       <<SgstName(rate), Remainder(line_tax)>> >>

\* the (ledger, amount) postings of one line's tax (lines 202-212)
TaxPostings(rate, line_tax, inter) ==
    IF inter
    THEN << <<IgstName(rate), line_tax>> >>
    ELSE << <<CgstName(rate), HalfTax(line_tax)>>,
            <<SgstName(rate), Remainder(line_tax)>> >>

RECURSIVE PostAll(_, _)
\* d[name] = d.get(name, 0) + amount for every posting, in order
PostAll(d, postings) ==
    IF postings = <<>> THEN d
    ELSE PostAll(DictSet(d, Head(postings)[1],
                         DictGet(d, Head(postings)[1], 0) + Head(postings)[2]),
                 Tail(postings))

RECURSIVE Accumulate(_, _, _)
\* the loop over line_items of lines 182-212; acc holds purchase_ledger_totals,
\* tax_ledger_totals and total_voucher_value
Accumulate(items, inter, acc) ==
    IF items = <<>> THEN acc
    ELSE LET item == Head(items)
             rate == ItemGstRate(item)
             amount == LineAmount(item)
             line_tax == LineTax(item)
             rate_str == RateKeyStr(rate) \o "%"
         IN  Accumulate(Tail(items), inter,
                 [purchase |-> DictSet(acc.purchase, rate_str,
                                  DictGet(acc.purchase, rate_str, 0) + amount),
                  tax |-> PostAll(acc.tax, TaxPostings(rate, line_tax, inter)),
                  total |-> acc.total + amount + line_tax])

EmptyTotals == [purchase |-> <<>>, tax |-> <<>>, total |-> 0]

RECURSIVE SortedSeq(_)
\* the elements of a finite set of integers in ascending order (the code
\* iterates a Python set; no claim depends on that order)
SortedSeq(S) ==
    IF S = {} THEN <<>>
    ELSE LET m == CHOOSE x \in S : \A y \in S : x <= y
         IN  <<m>> \o SortedSeq(S \ {m})

RECURSIVE Flatten(_)
Flatten(ss) == IF ss = <<>> THEN <<>> ELSE Head(ss) \o Flatten(Tail(ss))

\* one master of the "All Masters" block
Master(tag, name, parent, gstin, state, duty, rate) ==
    [tag |-> tag, name |-> name, parent |-> parent, partyGstin |-> gstin,
     stateName |-> state, dutyHead |-> duty, gstRate |-> rate]

\* lines 95-102: the unit master, always emitted
UnitMaster == Master("UNIT", "Nos", "", "", "", "", 0)

\* PartyMasters without the membership test
PartyMasters_Always(party_name, party_group, party_gstin, party_state, known) ==
    << Master("LEDGER", esc(party_name), party_group,
              esc(party_gstin), esc(party_state), "", 0) >>

\* lines 104-117
PartyMasters(party_name, party_group, party_gstin, party_state, known) ==
    IF party_name \notin known
    THEN << Master("LEDGER", esc(party_name), party_group,
                   esc(party_gstin), esc(party_state), "", 0) >>
    ELSE <<>>

\* lines 126-138
PurchaseMasters(rates, parent, known) ==
    Flatten([i \in 1..Len(rates) |->
        IF PurchaseLedgerName(rates[i]) \notin known
        THEN << Master("LEDGER", esc(PurchaseLedgerName(rates[i])), parent,
                       "", "", "", rates[i]) >>
        ELSE <<>>])

\* TaxLedgerSpecs that creates the Central and State ledgers for an
\* inter-state party as well
TaxLedgerSpecs_Both(rate, inter) ==
    (IF inter THEN << <<IgstName(rate), "Integrated Tax", rate>> >> ELSE <<>>)
    \o << <<CgstName(rate), "Central Tax", HalfRate(rate)>>,
          <<SgstName(rate), "State Tax", HalfRate(rate)>> >>

\* the tax ledgers of one rate: (name, duty head, rate) - lines 143-163
TaxLedgerSpecs(rate, inter) ==
    IF inter
    THEN << <<IgstName(rate), "Integrated Tax", rate>> >>
    ELSE << <<CgstName(rate), "Central Tax", HalfRate(rate)>>,
            <<SgstName(rate), "State Tax", HalfRate(rate)>> >>

\* an encoder that leaves the tax ledgers to the importing company
TaxMasters_Omitted(rates, inter, known) == <<>>

\* lines 141-174
TaxMasters(rates, inter, known) ==
    Flatten([i \in 1..Len(rates) |->
        IF rates[i] > 0
        THEN LET specs == TaxLedgerSpecs(rates[i], inter)
             IN  Flatten([j \in 1..Len(specs) |->
                     IF specs[j][1] \notin known
                     THEN << Master("LEDGER", esc(specs[j][1]), "Duties & Taxes",
                                    "", "", specs[j][2], specs[j][3]) >>
                     ELSE <<>>])
        ELSE <<>>])

\* one LEDGERENTRIES.LIST block; kind names the template that rendered it
\* (party: lines 222-243, purchase: 248-315, tax: 327-379)
LedgerEntry(kind, name, deemed, party, amount) ==
    [kind |-> kind, ledgerName |-> name, isDeemedPositive |-> deemed,
     isPartyLedger |-> party, amount |-> amount]

\* lines 222-243
PartyEntry(party_name, total_voucher_value) ==
    LedgerEntry("party", esc(party_name), "No", "Yes",
                round_val(total_voucher_value, 1))

\* lines 246-315
PurchaseEntries(purchase_ledger_totals) ==
    [i \in 1..Len(purchase_ledger_totals) |->
        LedgerEntry("purchase", "PURCHASE @" \o purchase_ledger_totals[i][1],
                    "Yes", "No", -Abs(purchase_ledger_totals[i][2]))]

\* lines 318-379: a tax ledger whose rounded total is not positive is skipped
TaxEntries(tax_ledger_totals) ==
    Flatten([i \in 1..Len(tax_ledger_totals) |->
        LET amt == round_val(tax_ledger_totals[i][2], 1)
        IN  IF amt > 0
            THEN << LedgerEntry("tax", tax_ledger_totals[i][1], "Yes", "No",
                                -Abs(amt)) >>
            ELSE <<>>])

\* LedgerEntries with the tax block rendered before the purchase block
LedgerEntries_TaxFirst(party_name, totals) ==
    <<PartyEntry(party_name, totals.total)>>
        \o TaxEntries(totals.tax)
        \o PurchaseEntries(totals.purchase)

\* lines 219-379: party first, then purchase ledgers, then tax ledgers
LedgerEntries(party_name, totals) ==
    <<PartyEntry(party_name, totals.total)>>
        \o PurchaseEntries(totals.purchase)
        \o TaxEntries(totals.tax)

\* lines 119-124
UniqueRates(items) == {ItemGstRate(items[i]) : i \in 1..Len(items)}

RECURSIVE ReplaceAll(_, _, _)
\* s.replace(c, by) for each character c of the string cs in turn
ReplaceAll(s, cs, by) ==
    IF cs = "" THEN s ELSE ReplaceAll(ReplaceChar(s, Head(cs), by), Tail(cs), by)

\* re.match(r'\d{lo,hi}', s) consuming all of s
DigitRun(s, lo, hi) ==
    /\ Len(s) >= lo /\ Len(s) <= hi
    /\ \A i \in 1..Len(s) : InStr(SubSeq(s, i, i), DigitChars)

RECURSIVE Fields(_, _)
\* the pieces of s between the occurrences of the character c
Fields(s, c) ==
    LET hits == {i \in 1..Len(s) : SubSeq(s, i, i) = c}
        first == CHOOSE i \in hits : \A j \in hits : i <= j
    IN  IF hits = {} THEN <<s>>
        ELSE <<SubSeq(s, 1, first - 1)>> \o Fields(SubSeq(s, first + 1, Len(s)), c)

\* str.zfill(2)
ZFill2(s) == IF Len(s) < 2 THEN "0" \o s ELSE s

\* format_date_for_xml that ignores the invoice date
format_date_for_xml_AlwaysToday(date_str, now) == now

\* format_date_for_xml(date_str) when datetime.now() is the day `now`
\* (as YYYYMMDD).  '$' also matches before one final newline.
format_date_for_xml(date_str, now) ==
    LET s == date_str
        d == ReplaceAll(s, "./ ", "-")
        \* the part of d the anchored patterns have to cover
        body == IF d # "" /\ SubSeq(d, Len(d), Len(d)) = "\n"
                THEN SubSeq(d, 1, Len(d) - 1) ELSE d
        f == Fields(body, "-")
        iso == /\ Len(f) = 3 /\ DigitRun(f[1], 4, 4)
               /\ DigitRun(f[2], 2, 2) /\ DigitRun(f[3], 2, 2)
        dmy == /\ Len(f) = 3 /\ DigitRun(f[1], 1, 2)
               /\ DigitRun(f[2], 1, 2) /\ DigitRun(f[3], 4, 4)
    IN  IF s = "" THEN now
        ELSE IF iso THEN ReplaceChar(d, "-", "")
        ELSE IF dmy THEN f[3] \o ZFill2(f[2]) \o ZFill2(f[1])
        ELSE now

\* str(uuid.uuid4()): the n-th value drawn in this process; every draw
\* returns a value not returned before
Uuid4(n) == "uuid-" \o IntStr(n)

\* uuid4() calls per generate_tally_xml call (lines 75-77)
UuidsPerCall == 3

\* generate_tally_xml(invoice, line_items, existing_ledgers): the returned
\* document, when datetime.now() is the day `now` and n uuid4 values were
\* drawn before the call.  The function reads existing_ledgers and never
\* writes it.
generate_tally_xml(inv, items, known, now, n) ==
    LET invoice_date == GetOr(inv, "invoice_date", "", "")
        date_xml == format_date_for_xml(invoice_date, now)
        guid == Uuid4(n + 1)
        remote_id == Uuid4(n + 2)
        vch_key == Uuid4(n + 3) \o ":000000c8"
        invoice_number == GetOr(inv, "invoice_number", "", "")
        buyer_name_str == GetOr(inv, "buyer_name", "Cash Buyer", "")
        supplier_name == GetOr(inv, "supplier_name", "Cash Party", "")
        gstin == GetOr(inv, "gstin", "", "")
        buyer_gstin == GetOr(inv, "buyer_gstin", "", "")
        party_name == clean_name(IF ~is_sales THEN supplier_name ELSE buyer_name_str)
        party_group == IF ~is_sales THEN "Sundry Creditors" ELSE "Sundry Debtors"
        ledger_parent_group == IF ~is_sales THEN "Purchase Accounts" ELSE "Sales Accounts"
        supplier_gstin_clean == Upper(Strip(gstin))
        buyer_gstin_clean == Upper(Strip(buyer_gstin))
        party_gstin == IF ~is_sales THEN supplier_gstin_clean ELSE buyer_gstin_clean
        party_state == IF get_state_name(party_gstin) # ""
                       THEN get_state_name(party_gstin) ELSE "Maharashtra"
        is_inter_state == IsInterState(party_gstin)
        rates == SortedSeq(UniqueRates(items))
        totals == Accumulate(items, is_inter_state, EmptyTotals)
    IN  [status |-> "ok",
         masters |-> <<UnitMaster>>
                     \o PartyMasters(party_name, party_group, party_gstin,
                                     party_state, known)
                     \o PurchaseMasters(rates, ledger_parent_group, known)
                     \o TaxMasters(rates, is_inter_state, known),
         vouchers |-> << [vchType |-> "Purchase",
                          remoteId |-> esc(remote_id),
                          vchKey |-> esc(vch_key),
                          date |-> date_xml,
                          guid |-> esc(guid),
                          partyGstin |-> esc(party_gstin),
                          partyLedgerName |-> esc(party_name),
                          voucherNumber |-> esc(invoice_number),
                          basicBuyerName |-> esc(buyer_name_str),
                          entries |-> LedgerEntries(party_name, totals)] >>]

(***************************************************************************)
(* src/tally_backend_service.py : TallyBackendService.                     *)
(***************************************************************************)
escape_xml(text) ==
    IF text = "" THEN ""
    ELSE ReplaceChar(ReplaceChar(ReplaceChar(ReplaceChar(ReplaceChar(
             text, "&", "&amp;"), "<", "&lt;"), ">", "&gt;"),
             Quote, "&quot;"), "'", "&apos;")

\* TallyBackendService.clean_name(name, max_length=50)
backend_clean_name(name) ==
    LET cleaned == Strip(KeepAllowed(name))
    IN  IF name = "" THEN "Unnamed"
        ELSE IF cleaned = "" THEN "Unnamed"
        ELSE SubSeq(cleaned, 1,
                    IF Len(cleaned) < NameLimit THEN Len(cleaned) ELSE NameLimit)

\* round_amount(amount) for amount = n/d paise
round_amount(n, d) == RoundHalfUp(n, d)

_format_rate(rate) == format_rate(rate)

\* dict.get(key, default): only an absent key gives the default
Get(obj, field, default) == IF field \in DOMAIN obj THEN obj[field] ELSE default

AmountUnit == QtyUnit \div 10     \* Excel item amounts are given in 0.001 rupee

\* amount = self.round_amount(item.get("amount", 0)), in paise
ExcelItemAmount(item) == round_amount(Get(item, "amount", 0), AmountUnit)
\* tax_rate = item.get("taxRate", 0)
ExcelItemRate(item) == Get(item, "taxRate", 0)
\* tax_amount = self.round_amount(amount * (tax_rate / 100))
ExcelItemTax(item) ==
    round_amount(ExcelItemAmount(item) * ExcelItemRate(item), RateUnit * 100)

\* half_tax / remainder of lines 360-361
ExcelHalfTax(tax_amount) == round_amount(tax_amount, 2)
ExcelRemainder(tax_amount) == round_amount(tax_amount - ExcelHalfTax(tax_amount), 1)

\* lines 347-364
ExcelTaxPostings(rate, tax_amount, inter) ==
    IF inter
    THEN << <<"Input IGST " \o _format_rate(rate) \o "%", tax_amount>> >>
    ELSE << <<"Input CGST@" \o _format_rate(HalfRate(rate)) \o "%",
              ExcelHalfTax(tax_amount)>>,
            <<"Input SGST@" \o _format_rate(HalfRate(rate)) \o "%",
              ExcelRemainder(tax_amount)>> >>

RECURSIVE ExcelAccumulate(_, _, _)
\* the loop over voucher items of lines 331-364
ExcelAccumulate(items, inter, acc) ==
    IF items = <<>> THEN acc
    ELSE LET item == Head(items)
             amount == ExcelItemAmount(item)
             tax_rate == ExcelItemRate(item)
             rate_key == RateKeyStr(tax_rate) \o "%"
         IN  IF amount <= 0
             THEN ExcelAccumulate(Tail(items), inter, acc)
             ELSE ExcelAccumulate(Tail(items), inter,
                     [purchase |-> DictSet(acc.purchase, rate_key,
                                      DictGet(acc.purchase, rate_key, 0) + amount),
                      tax |-> IF tax_rate > 0
                              THEN PostAll(acc.tax,
                                       ExcelTaxPostings(tax_rate, ExcelItemTax(item), inter))
                              ELSE acc.tax,
                      total |-> acc.total + amount])

\* sum(tax_ledgers.values())
DictSum(d) == SeqSum([i \in 1..Len(d) |-> d[i][2]])

\* ExcelPartyEntry with the taxes left out of the party total
ExcelPartyEntry_TaxableOnly(party_name, totals) ==
    LedgerEntry("party", escape_xml(party_name), "No", "Yes",
                round_amount(totals.total, 1))

\* lines 374-398
ExcelPartyEntry(party_name, totals) ==
    LedgerEntry("party", escape_xml(party_name), "No", "Yes",
                round_amount(totals.total + DictSum(totals.tax), 1))

\* lines 401-472
ExcelPurchaseEntries(purchase_ledgers) ==
    [i \in 1..Len(purchase_ledgers) |->
        LedgerEntry("purchase", "PURCHASE @" \o purchase_ledgers[i][1],
                    "Yes", "No", -Abs(purchase_ledgers[i][2]))]

\* lines 475-535
ExcelTaxEntries(tax_ledgers) ==
    Flatten([i \in 1..Len(tax_ledgers) |->
        IF tax_ledgers[i][2] > 0
        THEN << LedgerEntry("tax", tax_ledgers[i][1], "Yes", "No",
                            -Abs(tax_ledgers[i][2])) >>
        ELSE <<>>])

ExcelLedgerEntries(party_name, totals) ==
    <<ExcelPartyEntry(party_name, totals)>>
        \o ExcelPurchaseEntries(totals.purchase)
        \o ExcelTaxEntries(totals.tax)

\* STATE_CODES.get(state_code) of lines 22-36 ("" when the code is unknown)
STATE_CODES(code) ==
    CASE code = "01" -> "Jammu & Kashmir"  [] code = "02" -> "Himachal Pradesh"
      [] code = "03" -> "Punjab"           [] code = "04" -> "Chandigarh"
      [] code = "05" -> "Uttarakhand"      [] code = "06" -> "Haryana"
      [] code = "07" -> "Delhi"            [] code = "08" -> "Rajasthan"
      [] code = "09" -> "Uttar Pradesh"    [] code = "10" -> "Bihar"
      [] code = "11" -> "Sikkim"           [] code = "12" -> "Arunachal Pradesh"
      [] code = "13" -> "Nagaland"         [] code = "14" -> "Manipur"
      [] code = "15" -> "Mizoram"          [] code = "16" -> "Tripura"
      [] code = "17" -> "Meghalaya"        [] code = "18" -> "Assam"
      [] code = "19" -> "West Bengal"      [] code = "20" -> "Jharkhand"
      [] code = "21" -> "Odisha"           [] code = "22" -> "Chhattisgarh"
      [] code = "23" -> "Madhya Pradesh"   [] code = "24" -> "Gujarat"
      [] code = "25" -> "Daman & Diu"      [] code = "26" -> "Dadra & Nagar Haveli"
      [] code = "27" -> "Maharashtra"      [] code = "28" -> "Karnataka"
      [] code = "29" -> "Goa"              [] code = "30" -> "Lakshadweep"
      [] code = "31" -> "Kerala"           [] code = "32" -> "Tamil Nadu"
      [] code = "33" -> "Puducherry"
      [] code = "34" -> "Andaman & Nicobar Islands"
      [] code = "35" -> "Telangana"        [] code = "36" -> "Andhra Pradesh"
      [] code = "37" -> "Ladakh"
      [] OTHER -> ""

IsDigits(s) == s # "" /\ \A i \in 1..Len(s) : InStr(SubSeq(s, i, i), DigitChars)

get_state_from_gstin(gstin) ==
    IF gstin = "" \/ Len(gstin) < 2 THEN "Maharashtra"
    ELSE LET state_code == Strip(SubSeq(gstin, 1, 2))
         IN  IF ~IsDigits(state_code) THEN "Maharashtra"
             ELSE IF STATE_CODES(state_code) = "" THEN "Maharashtra"
             ELSE STATE_CODES(state_code)

(***************************************************************************)
(* datetime.strptime(s, "%Y-%m-%d").strftime("%Y%m%d")                     *)
(***************************************************************************)
DigitVal(c) == (CHOOSE i \in 1..10 : SubSeq(DigitChars, i, i) = c) - 1

RECURSIVE ParseNat(_)
\* int(s) for a non-empty string of digits
ParseNat(s) ==
    IF Len(s) = 1 THEN DigitVal(s)
    ELSE 10 * ParseNat(SubSeq(s, 1, Len(s) - 1)) + DigitVal(SubSeq(s, Len(s), Len(s)))

RECURSIVE SplitOn(_, _)
\* s.split(c)
SplitOn(s, c) ==
    IF ~InStr(c, s) THEN <<s>>
    ELSE LET i == CHOOSE j \in 1..Len(s) :
                      /\ SubSeq(s, j, j) = c
                      /\ \A k \in 1..(j - 1) : SubSeq(s, k, k) # c
         IN  <<SubSeq(s, 1, i - 1)>> \o SplitOn(SubSeq(s, i + 1, Len(s)), c)

IsLeap(y) == (y % 4 = 0 /\ y % 100 # 0) \/ y % 400 = 0
DaysIn(y, m) ==
    IF m = 2 THEN (IF IsLeap(y) THEN 29 ELSE 28)
    ELSE IF m \in {4, 6, 9, 11} THEN 30 ELSE 31

Pad2(n) == IF n < 10 THEN "0" \o IntStr(n) ELSE IntStr(n)

\* TRUE iff strptime(s, "%Y-%m-%d") raises ValueError: %Y is four digits,
\* %m is 1-12 and %d is 1-31 with an optional leading zero, nothing may
\* remain, and the day must exist in the month
StrptimeRaises(s) ==
    LET p == SplitOn(s, "-")
    IN  \/ Len(p) # 3
        \/ ~(IsDigits(p[1]) /\ Len(p[1]) = 4 /\ ParseNat(p[1]) >= 1)
        \/ ~(IsDigits(p[2]) /\ Len(p[2]) <= 2 /\ ParseNat(p[2]) \in 1..12)
        \/ ~(IsDigits(p[3]) /\ Len(p[3]) <= 2
             /\ ParseNat(p[3]) \in 1..DaysIn(ParseNat(p[1]), ParseNat(p[2])))

\* date_obj.strftime("%Y%m%d") of a date that parsed
StrftimeYmd(s) ==
    LET p == SplitOn(s, "-")
    IN  IntStr(ParseNat(p[1])) \o Pad2(ParseNat(p[2])) \o Pad2(ParseNat(p[3]))

(***************************************************************************)
(* TallyBackendService._generate_masters                                   *)
(***************************************************************************)
\* "if name not in created_set: masters_xml += ...; created_set.add(name)"
EmitIfNew(st, name, master) ==
    IF name \in st.created THEN st
    ELSE [xml |-> Append(st.xml, master), created |-> st.created \cup {name}]

RECURSIVE EmitAll(_, _)
\* the tax ledgers of one item (lines 263-304); specs as in TaxLedgerSpecs
EmitAll(st, specs) ==
    IF specs = <<>> THEN st
    ELSE EmitAll(EmitIfNew(st, Head(specs)[1],
                     Master("LEDGER", escape_xml(Head(specs)[1]), "Duties & Taxes",
                            "", "", Head(specs)[2], Head(specs)[3])),
                 Tail(specs))

\* lines 265, 285-291
ExcelTaxLedgerSpecs(rate, inter) ==
    IF inter
    THEN << <<"Input IGST " \o _format_rate(rate) \o "%", "Integrated Tax", rate>> >>
    ELSE << <<"Input CGST@" \o _format_rate(HalfRate(rate)) \o "%",
              "Central Tax", HalfRate(rate)>>,
            <<"Input SGST@" \o _format_rate(HalfRate(rate)) \o "%",
              "State Tax", HalfRate(rate)>> >>

RECURSIVE ItemMasters(_, _, _)
\* the loop over voucher items of lines 240-304
ItemMasters(st, items, gstin) ==
    IF items = <<>> THEN st
    ELSE LET tax_rate == ExcelItemRate(Head(items))
             item_ledger_name == "PURCHASE @" \o RateKeyStr(tax_rate) \o "%"
             st1 == EmitIfNew(st, item_ledger_name,
                        Master("LEDGER", escape_xml(item_ledger_name),
                               "Purchase Accounts", "", "", "", tax_rate))
             st2 == IF tax_rate > 0
                    THEN EmitAll(st1, ExcelTaxLedgerSpecs(tax_rate, IsInterState(gstin)))
                    ELSE st1
         IN  ItemMasters(st2, Tail(items), gstin)

RECURSIVE _generate_masters(_, _)
\* _generate_masters(vouchers, created_set): st holds masters_xml and created_set
_generate_masters(vs, st) ==
    IF vs = <<>> THEN st
    ELSE LET voucher == Head(vs)
             party_name == backend_clean_name(Get(voucher, "partyName", "Party"))
             gstin == Upper(Strip(Get(voucher, "gstin", "")))
             is_valid_gstin == Len(gstin) = GstinLength
             state == IF is_valid_gstin THEN get_state_from_gstin(gstin)
                      ELSE "Maharashtra"
             group == IF voucher.voucherType = "Sales" THEN "Sundry Debtors"
                      ELSE "Sundry Creditors"
             st1 == EmitIfNew(st, party_name,
                        Master("LEDGER", escape_xml(party_name), group,
                               IF is_valid_gstin THEN escape_xml(gstin) ELSE "",
                               escape_xml(state), "", 0))
         IN  _generate_masters(Tail(vs),
                 ItemMasters(st1, Get(voucher, "items", <<>>), gstin))

(***************************************************************************)
(* TallyBackendService._generate_vouchers                                  *)
(***************************************************************************)
\* one voucher of the loop of lines 312-581
ExcelVoucher(voucher) ==
    LET party_name == backend_clean_name(Get(voucher, "partyName", "Party"))
        invoice_no == Get(voucher, "invoiceNo", "")
        gstin == Upper(Strip(Get(voucher, "gstin", "")))
        is_valid_gstin == Len(gstin) = GstinLength
        is_inter_state == IsInterState(gstin)
        totals == ExcelAccumulate(Get(voucher, "items", <<>>), is_inter_state,
                                  EmptyTotals)
    IN  [vchType |-> voucher.voucherType,
         date |-> StrftimeYmd(voucher.date),
         partyGstin |-> IF is_valid_gstin THEN escape_xml(gstin) ELSE "",
         partyLedgerName |-> escape_xml(party_name),
         voucherNumber |-> escape_xml(invoice_no),
         entries |-> ExcelLedgerEntries(party_name, totals)]

_generate_vouchers(vs) == [i \in 1..Len(vs) |-> ExcelVoucher(vs[i])]

\* voucher["date"], voucher["voucherType"] and strptime raise on a voucher
\* that lacks the key or carries a date that is not YYYY-MM-DD
VoucherRaises(voucher) ==
    \/ "date" \notin DOMAIN voucher
    \/ "voucherType" \notin DOMAIN voucher
    \/ StrptimeRaises(voucher.date)

\* generate_excel_import_xml(vouchers, company_name, create_masters)
generate_excel_import_xml(vs, with_masters) ==
    IF vs = <<>> THEN [status |-> "empty", masters |-> <<>>, vouchers |-> <<>>]
    ELSE IF \E i \in 1..Len(vs) : VoucherRaises(vs[i])
    THEN [status |-> "raised", masters |-> <<>>, vouchers |-> <<>>]
    ELSE [status |-> "ok",
          masters |-> IF with_masters
                      THEN _generate_masters(vs, [xml |-> <<>>, created |-> {}]).xml
                      ELSE <<>>,
          vouchers |-> _generate_vouchers(vs)]

(***************************************************************************)
(* src/validate_tally_xml.py : validate_amount_balance, on the AMOUNT      *)
(* values of a document (one per ledger entry), in paise.                  *)
(***************************************************************************)
validate_amount_balance(doc) ==
    LET amounts == Flatten([i \in 1..Len(doc.vouchers) |->
                       [j \in 1..Len(doc.vouchers[i].entries) |->
                           doc.vouchers[i].entries[j].amount]])
        total == SeqSum(amounts)
    IN  IF amounts = <<>> THEN [amount_count |-> 0]
        ELSE [total_balance |-> total, is_balanced |-> Abs(total) < 1,
              amount_count |-> Len(amounts)]

(***************************************************************************)
(* Text scanning (str.__contains__, re.search, re.findall).                *)
(***************************************************************************)
\* text[i:].startswith(pat)
At(text, i, pat) ==
    /\ i >= 1
    /\ i + Len(pat) - 1 <= Len(text)
    /\ SubSeq(text, i, i + Len(pat) - 1) = pat

\* position of the first occurrence of pat at or after p, 0 when there is none
FindFrom(text, pat, p) ==
    LET hits == {i \in p..(Len(text) - Len(pat) + 1) : At(text, i, pat)}
    IN  IF hits = {} THEN 0 ELSE CHOOSE i \in hits : \A j \in hits : i <= j

\* pat in text
Contains(text, pat) == FindFrom(text, pat, 1) # 0

Newline == "\n"

(***************************************************************************)
(* tally_service.push_to_tally (lines 601-618).                            *)
(* The transport outcome of requests.post is either an exception           *)
(* [raised |-> TRUE, message] or a response [raised |-> FALSE,             *)
(* status_code, text].                                                     *)
(***************************************************************************)
\* re.search(r"<LINEERROR>(.*?)</LINEERROR>", text): the leftmost opening
\* tag that has a closing tag later on the same line, and the text up to
\* the first such closing tag; [matched |-> FALSE] when m is None
LineErrorSearch(text) ==
    LET open == "<LINEERROR>"
        close == "</LINEERROR>"
        stop(i) == FindFrom(text, close, i + Len(open))
        ok(i) == /\ At(text, i, open)
                 /\ stop(i) # 0
                 /\ ~Contains(SubSeq(text, i + Len(open), stop(i) - 1), Newline)
        hits == {i \in 1..Len(text) : ok(i)}
        first == CHOOSE i \in hits : \A j \in hits : i <= j
    IN  IF hits = {} THEN [matched |-> FALSE, group |-> ""]
        ELSE [matched |-> TRUE,
              group |-> SubSeq(text, first + Len(open), stop(first) - 1)]

\* m = re.search(r"<TAG>(\d+)</TAG>", text); int(m.group(1)) if m else 0
\* \d+ must reach the closing tag, so the text between the opening tag and
\* the next "<" is a non-empty run of digits
CountTag(text, tag) ==
    LET open == "<" \o tag \o ">"
        close == "</" \o tag \o ">"
        lt(i) == FindFrom(text, "<", i + Len(open))
        ok(i) == /\ At(text, i, open)
                 /\ lt(i) > i + Len(open)
                 /\ IsDigits(SubSeq(text, i + Len(open), lt(i) - 1))
                 /\ At(text, lt(i), close)
        hits == {i \in 1..Len(text) : ok(i)}
        first == CHOOSE i \in hits : \A j \in hits : i <= j
    IN  IF hits = {} THEN 0
        ELSE ParseNat(SubSeq(text, first + Len(open), lt(first) - 1))

\* the body of the try block, given the response (lines 604-616)
InterpretResponse(text) ==
    IF Contains(text, "<LINEERROR>")
    THEN [success |-> FALSE,
          message |-> IF LineErrorSearch(text).matched
                      THEN LineErrorSearch(text).group ELSE "Tally Line Error"]
    ELSE LET created == CountTag(text, "CREATED")
             errors == CountTag(text, "ERRORS")
         IN  IF errors > 0
             THEN [success |-> FALSE,
                   message |-> "Tally reported " \o IntStr(errors) \o " errors"]
             ELSE IF created > 0
             THEN [success |-> TRUE, message |-> "Created " \o IntStr(created)]
             ELSE [success |-> FALSE, message |-> "Tally ignored request"]

\* push_to_tally(xml) once requests.post has ended as `ended`: every
\* payload is posted, the status code is not read, any exception is caught
push_to_tally(payload_xml, ended) ==
    IF ended.raised
    THEN [success |-> FALSE, message |-> ended.message]
    ELSE InterpretResponse(ended.text)

\* the number of requests.post calls one push_to_tally(xml) makes
push_to_tally_posts(payload_xml) == 1

(***************************************************************************)
(* TallyBackendService.push_vouchers_to_tally (lines 592-670).             *)
(***************************************************************************)
MinPayloadLength == 50
DetailsLimit == 500
ErrorsShown == 5

\* not xml_payload or len(xml_payload.strip()) < 50
PayloadRejected(xml_payload) ==
    xml_payload = "" \/ Len(Strip(xml_payload)) < MinPayloadLength

\* one match of r'<ERROR[^>]*>([^<]+)</ERROR>' (attrs: the opening tag ends
\* at the first ">") or of r'<TAG>([^<]+)</TAG>' (prefix is the whole tag)
\* starting at i: the group is the non-empty text up to the next "<", which
\* must start the closing tag
TagMatchAt(text, i, prefix, attrs, close) ==
    LET gt == IF attrs THEN FindFrom(text, ">", i + Len(prefix))
              ELSE i + Len(prefix) - 1
        lt == FindFrom(text, "<", gt + 1)
    IN  IF At(text, i, prefix) /\ gt # 0 /\ lt > gt + 1 /\ At(text, lt, close)
        THEN [ok |-> TRUE, group |-> SubSeq(text, gt + 1, lt - 1),
              next |-> lt + Len(close)]
        ELSE [ok |-> FALSE, group |-> "", next |-> i + 1]

RECURSIVE FindAllTags(_, _, _, _, _)
\* re.findall of such a pattern from position p on: the groups of the
\* non-overlapping matches, left to right
FindAllTags(text, prefix, attrs, close, p) ==
    LET hits == {i \in p..Len(text) : TagMatchAt(text, i, prefix, attrs, close).ok}
        first == CHOOSE i \in hits : \A j \in hits : i <= j
        m == TagMatchAt(text, first, prefix, attrs, close)
    IN  IF hits = {} THEN <<>>
        ELSE <<m.group>> \o FindAllTags(text, prefix, attrs, close, m.next)

\* the end of a match of r'<CREATED>|<TALLYMESSAGE[^>]*>(?:[^<]|\n)*<LEDGER'
\* starting at i, 0 when there is none
CreatedMarkerEnd(text, i) ==
    LET gt == FindFrom(text, ">", i + Len("<TALLYMESSAGE"))
        lt == FindFrom(text, "<", gt + 1)
    IN  IF At(text, i, "<CREATED>") THEN i + Len("<CREATED>")
        ELSE IF At(text, i, "<TALLYMESSAGE") /\ gt # 0 /\ At(text, lt, "<LEDGER")
        THEN lt + Len("<LEDGER")
        ELSE 0

RECURSIVE CountCreatedMarkers(_, _)
\* len(re.findall(...)) from position p on
CountCreatedMarkers(text, p) ==
    LET hits == {i \in p..Len(text) : CreatedMarkerEnd(text, i) # 0}
        first == CHOOSE i \in hits : \A j \in hits : i <= j
    IN  IF hits = {} THEN 0
        ELSE 1 + CountCreatedMarkers(text, CreatedMarkerEnd(text, first))

RECURSIVE JoinWith(_, _)
\* sep.join(parts)
JoinWith(parts, sep) ==
    IF parts = <<>> THEN ""
    ELSE IF Len(parts) = 1 THEN parts[1]
    ELSE parts[1] \o sep \o JoinWith(Tail(parts), sep)

FirstN(s, n) == SubSeq(s, 1, IF Len(s) < n THEN Len(s) ELSE n)

\* lines 615-651: the response has arrived; counts are kept as their text
InterpretImportResponse(status_code, response_text) ==
    IF status_code # 200
    THEN [success |-> FALSE,
          message |-> "Tally server returned HTTP " \o IntStr(status_code),
          details |-> IF response_text # "" THEN FirstN(response_text, DetailsLimit)
                      ELSE "No response body"]
    ELSE LET created_count == CountCreatedMarkers(response_text, 1)
             error_tags == FindAllTags(response_text, "<ERROR", TRUE, "</ERROR>", 1)
             line_errors == FindAllTags(response_text, "<LINEERROR>", FALSE, "</LINEERROR>", 1)
             import_errors == FindAllTags(response_text, "<IMPORTERROR>", FALSE, "</IMPORTERROR>", 1)
             all_errors == error_tags \o line_errors \o import_errors
             error_count == Len(all_errors)
         IN  IF error_count > 0
             THEN [success |-> FALSE,
                   message |-> "Tally import errors: "
                                \o JoinWith(FirstN(all_errors, ErrorsShown), "; "),
                   createdCount |-> IntStr(created_count),
                   errorCount |-> IntStr(error_count)]
             ELSE [success |-> TRUE,
                   message |-> "Successfully imported vouchers to Tally",
                   createdCount |-> IF created_count # 0 THEN IntStr(created_count)
                                    ELSE "Unknown"]

\* the three except clauses (lines 653-670)
ImportFailure(ended) ==
    [success |-> FALSE,
     message |-> CASE ended.kind = "Timeout" ->
                     "Connection to Tally timed out (30s). Ensure Tally is running on localhost:9000"
                   [] ended.kind = "ConnectionError" ->
                     "Cannot connect to Tally on localhost:9000. Is Tally running?"
                   [] OTHER -> "Error: " \o ended.message]

\* push_vouchers_to_tally(xml_payload) when requests.post would end as
\* `ended`; a rejected payload returns before the post
push_vouchers_to_tally(xml_payload, ended) ==
    IF PayloadRejected(xml_payload)
    THEN [success |-> FALSE, message |-> "Invalid XML payload - empty or too short"]
    ELSE IF ended.raised THEN ImportFailure(ended)
    ELSE InterpretImportResponse(ended.status_code, ended.text)

\* the number of requests.post calls one push_vouchers_to_tally makes
push_vouchers_to_tally_posts(xml_payload) ==
    IF PayloadRejected(xml_payload) THEN 0 ELSE 1

(***************************************************************************)
(* The requests the caller can make.                                       *)
(***************************************************************************)
SeqsUpTo(S, n) == UNION {[1..k -> S] : k \in 0..n}

Gstin27 == "27ABCDE1234F1Z5"
Gstin29 == "29ABCDE1234F1Z5"

\* supplier registration numbers: absent, home state, other state, other
\* state in lower case with surrounding blanks, too short, too long
SupplierGstins ==
    {"", Gstin27, Gstin29, " 29abcde1234f1z5 ", "29ABC", "29ABCDE1234F1Z5X"}
BuyerGstins == {"", Gstin29}
SupplierNames == {"", "Acme Traders"}

\* every supplier with and without a name; the named ones also with a buyer
\* registered outside the home state
Invoices ==
    {[invoice_number |-> "INV-1", supplier_name |-> n, gstin |-> g,
      buyer_gstin |-> ""] : n \in SupplierNames, g \in SupplierGstins}
    \cup
    {[invoice_number |-> "INV-1", supplier_name |-> "Acme Traders", gstin |-> g,
      buyer_gstin |-> b] : g \in SupplierGstins, b \in BuyerGstins}

\* line items: qty in 0.01, rate in paise, gst_rate in 0.005 percent
LineItemPool ==
    { [qty |-> 100, rate |-> 100000, gst_rate |-> 18 * RateUnit],  \* 1000.00 at 18%
      [qty |-> 300, rate |-> 3333, gst_rate |-> 5 * RateUnit],     \* 99.99 at 5%
      [qty |-> -100, rate |-> 10000, gst_rate |-> 18 * RateUnit],  \* negative quantity
      [qty |-> 100, rate |-> 1010, gst_rate |-> RateUnit \div 4],  \* 10.10 at 0.25%
      [qty |-> 200, rate |-> 5, gst_rate |-> 12 * RateUnit],       \* 0.10 at 12%
      [qty |-> 0, rate |-> 5000] }                                 \* falsy qty, no gst_rate  

\* nothing known, or the named party and part of the 18% ledgers known
KnownLedgerSets ==
    { {},
      {"Acme Traders", "PURCHASE @18%", "Input CGST@9%", "Input IGST 18%"} }

\* Excel vouchers: amount in 0.001 rupee, taxRate in 0.005 percent
ExcelItemPool ==
    { [amount |-> 1000000, taxRate |-> 18 * RateUnit],
      [amount |-> 99995, taxRate |-> 5 * RateUnit],
      [amount |-> 50000, taxRate |-> 0],
      [amount |-> 100, taxRate |-> 12 * RateUnit],
      [amount |-> -50000, taxRate |-> 18 * RateUnit],
      [amount |-> 10100, taxRate |-> RateUnit \div 4] }

ExcelVoucherPool ==
    {[date |-> "2025-01-31", invoiceNo |-> "X-7", partyName |-> n, gstin |-> g,
      voucherType |-> ty, items |-> its] :
        n \in {"Acme Traders"}, g \in {"", Gstin27, Gstin29, "29ABC"},
        ty \in {"Purchase", "Sales"}, its \in SeqsUpTo(ExcelItemPool, MaxItems)}

\* the vouchers of batches with more than one voucher
BatchPool ==
    {[date |-> "2025-01-31", invoiceNo |-> "X-8", partyName |-> "Acme Traders",
      gstin |-> g, voucherType |-> "Purchase",
      items |-> <<[amount |-> 1000000, taxRate |-> 18 * RateUnit]>>] :
        g \in {Gstin27, Gstin29}}
    \cup
    {[date |-> "2025-02-01", invoiceNo |-> "X-9", partyName |-> "Bharat Steel",
      gstin |-> Gstin27, voucherType |-> "Sales",
      items |-> <<[amount |-> 99995, taxRate |-> 5 * RateUnit],
                  [amount |-> 50000, taxRate |-> 0]>>]}

\* vouchers with absent keys, dates that strptime rejects, and items without
\* amount, without tax rate, or with amount 0
EdgeVoucherPool ==
    LET item == [amount |-> 1000000, taxRate |-> 18 * RateUnit]
        full == [date |-> "2025-01-31", invoiceNo |-> "X-5",
                 partyName |-> "Acme Traders", gstin |-> Gstin27,
                 voucherType |-> "Purchase", items |-> <<item>>]
    IN  { [invoiceNo |-> "X-5", partyName |-> "Acme Traders", gstin |-> Gstin27,
           voucherType |-> "Purchase", items |-> <<item>>],
          [date |-> "2025-01-31", invoiceNo |-> "X-5", partyName |-> "Acme Traders",
           gstin |-> Gstin27, items |-> <<item>>],
          [date |-> "2025-01-31", voucherType |-> "Purchase"],
          [full EXCEPT !.date = "31/01/2025"],
          [full EXCEPT !.date = "2025-02-30"],
          [full EXCEPT !.items = <<[amount |-> 1000000]>>],
          [full EXCEPT !.items = <<[taxRate |-> 18 * RateUnit]>>],
          [full EXCEPT !.items = <<[amount |-> 0, taxRate |-> 18 * RateUnit]>>],
          [full EXCEPT !.items = <<[amount |-> 0, taxRate |-> 18 * RateUnit], item>>] }

ExcelBatches ==
    {<<>>} \cup {<<v>> : v \in ExcelVoucherPool}
           \cup {<<v>> : v \in EdgeVoucherPool}
           \cup UNION {[1..k -> BatchPool] : k \in 2..MaxVouchers}

\* line items at the edges: amount 0, tax rate 0, no field but a
\* description, and an ordinary line
EdgeItemPool ==
    { [qty |-> 100, rate |-> 0, gst_rate |-> 18 * RateUnit],
      [qty |-> 100, rate |-> 5000, gst_rate |-> 0],
      [description |-> "Widget"],
      [qty |-> 100, rate |-> 100000, gst_rate |-> 18 * RateUnit] }

\* an invoice with no field but its number, and a registered supplier
EdgeInvoices ==
    { [invoice_number |-> "INV-3"],
      [invoice_number |-> "INV-3", supplier_name |-> "Acme Traders",
       gstin |-> Gstin29] }

NoDocument == [status |-> "none", masters |-> <<>>, vouchers |-> <<>>]

\* the days datetime.now() can fall on
Days == {"20250131", "20250201"}
FirstDay == "20250131"

\* invoices that differ in their date only: ISO, day-first with "/", "."
\* and single digits, written-out month, digits that are no calendar date,
\* empty
InvoiceDates ==
    {"2025-01-15", "15/01/2025", "5.1.2025", "15 Jan 2025", "2025-13-45", ""}
DatedInvoices ==
    {[invoice_number |-> "INV-2", supplier_name |-> "Acme Traders",
      gstin |-> Gstin27, invoice_date |-> d] : d \in InvoiceDates}

\* payloads handed to the gateway: empty, blank, a short document, 49 and
\* 50 significant characters, a short document padded with blanks, and an
\* import envelope
Payloads ==
    {"", "   ", "<ENVELOPE></ENVELOPE>",
     "<ENVELOPE><BODY><DATA>0123456789012</DATA></BODY>",
     "<ENVELOPE><BODY><DATA>01234567890123</DATA></BODY>",
     "  <ENVELOPE></ENVELOPE>                                  ",
     "<ENVELOPE><HEADER><TALLYREQUEST>Import Data</TALLYREQUEST></HEADER><BODY></BODY></ENVELOPE>"}

\* response bodies: any combination of the outcome tags ...
TaggedBodies ==
    {le \o cr \o al \o er :
        le \in {"", "<LINEERROR>Foo</LINEERROR>"},
        cr \in {"", "<CREATED>0</CREATED>", "<CREATED>2</CREATED>"},
        al \in {"", "<ALTERED>1</ALTERED>"},
        er \in {"", "<ERRORS>1</ERRORS>"}}

\* ... and bodies with an unclosed, an empty and a two-line LINEERROR, other
\* error tags, a count that is no number, a created ledger, and no known tag
OtherBodies ==
    {"<CREATED>2</CREATED><ERRORS>0</ERRORS>",
     "<CREATED>0</CREATED><ERRORS>0</ERRORS>",
     "<LINEERROR>", "<LINEERROR></LINEERROR>", "<LINEERROR>Foo\nBar</LINEERROR>",
     "<ERROR code=\"7\">Bad voucher</ERROR><CREATED>1</CREATED>",
     "<IMPORTERROR>No ledger</IMPORTERROR>",
     "<CREATED>many</CREATED>",
     "<TALLYMESSAGE xmlns=\"x\">\n <LEDGER NAME=\"A\">",
     "<html>Service Unavailable</html>"}

Bodies == TaggedBodies \cup OtherBodies

\* the bodies of the responses whose status is not 200
RefusalBodies ==
    {"", "<CREATED>2</CREATED><ERRORS>0</ERRORS>", "<html>Service Unavailable</html>"}

\* how requests.post can end: a 200 response, a 500 response, or one of the
\* exceptions
Outcomes ==
    {[raised |-> FALSE, kind |-> "Response", message |-> "",
      status_code |-> 200, text |-> b] : b \in Bodies}
    \cup
    {[raised |-> FALSE, kind |-> "Response", message |-> "",
      status_code |-> 500, text |-> b] : b \in RefusalBodies}
    \cup
    {[raised |-> TRUE, kind |-> k, message |-> k \o " raised by requests.post",
      status_code |-> 0, text |-> ""] :
        k \in {"Timeout", "ConnectionError", "InvalidSchema"}}

NoOutcome == [raised |-> FALSE, kind |-> "None", message |-> "",
              status_code |-> 0, text |-> ""]
NoResult == [success |-> FALSE, message |-> "no push made"]

\* no push was made
GatewayIdle ==
    /\ payload = "" /\ outcome = NoOutcome /\ result = NoResult /\ http_posts = 0

\* no document was encoded
EncoderIdle ==
    /\ xml = NoDocument /\ invoice = [invoice_number |-> ""] /\ line_items = <<>>
    /\ vouchers = <<>> /\ create_masters = TRUE /\ existing_ledgers = {}

\* nothing was returned yet
NoReturn == [raised |-> FALSE, value |-> "nothing"]

\* no text function, bank encoder or totals call was made
TextIdle == text_arg = "" /\ returned = NoReturn /\ bank_data = [transactions |-> <<>>]

\* no wrapped function was called
RetryIdle ==
    /\ max_attempts = 0 /\ base_delay = 0 /\ service = <<>>
    /\ invocations = 0 /\ sleeps = <<>>

\* nothing was uploaded to the model service or saved to UPLOAD_DIR
FilesIdle ==
    /\ _uploaded_files = <<>> /\ cleanup_calls = {} /\ upload_dir = {} /\ written = {}

ServiceIdle == TextIdle /\ RetryIdle /\ FilesIdle

(***************************************************************************)
(* The state machine: the caller holds one request and calls the encoder.  *)
(***************************************************************************)
\* the caller is about to encode an invoice with generate_tally_xml
InitTally ==
    /\ calls = 0
    /\ xml = NoDocument
    /\ fn = "generate_tally_xml"
    /\ invoice \in Invoices
    /\ line_items \in SeqsUpTo(LineItemPool, MaxItems)
    /\ existing_ledgers \in KnownLedgerSets
    /\ vouchers = <<>>
    /\ create_masters = TRUE
    /\ today = FirstDay
    /\ uuid_calls = 0
    /\ GatewayIdle
    /\ ServiceIdle

\* the caller is about to encode an invoice whose date field varies, on
\* either day
InitTallyDated ==
    /\ calls = 0
    /\ xml = NoDocument
    /\ fn = "generate_tally_xml"
    /\ invoice \in DatedInvoices
    /\ line_items = <<[qty |-> 100, rate |-> 100000, gst_rate |-> 18 * RateUnit]>>
    /\ existing_ledgers = {}
    /\ vouchers = <<>>
    /\ create_masters = TRUE
    /\ today \in Days
    /\ uuid_calls = 0
    /\ GatewayIdle
    /\ ServiceIdle

\* the caller is about to encode an invoice with line items at the edges
InitTallyEdge ==
    /\ calls = 0
    /\ xml = NoDocument
    /\ fn = "generate_tally_xml"
    /\ invoice \in EdgeInvoices
    /\ line_items \in SeqsUpTo(EdgeItemPool, MaxItems)
    /\ existing_ledgers = {}
    /\ vouchers = <<>>
    /\ create_masters = TRUE
    /\ today = FirstDay
    /\ uuid_calls = 0
    /\ GatewayIdle
    /\ ServiceIdle

\* the caller is about to encode a voucher batch with generate_excel_import_xml
InitExcel ==
    /\ calls = 0
    /\ xml = NoDocument
    /\ fn = "generate_excel_import_xml"
    /\ vouchers \in ExcelBatches
    /\ create_masters \in BOOLEAN
    /\ invoice = [invoice_number |-> ""]
    /\ line_items = <<>>
    /\ existing_ledgers = {}
    /\ today = FirstDay
    /\ uuid_calls = 0
    /\ GatewayIdle
    /\ ServiceIdle

\* the caller is about to push a payload through one of the two gateways
InitPush ==
    /\ calls = 0
    /\ fn \in {"push_to_tally", "push_vouchers_to_tally"}
    /\ payload \in Payloads
    /\ outcome = NoOutcome
    /\ result = NoResult
    /\ http_posts = 0
    /\ today = FirstDay
    /\ uuid_calls = 0
    /\ EncoderIdle
    /\ ServiceIdle

Init == InitTally \/ InitTallyDated \/ InitTallyEdge \/ InitExcel

\* a call of generate_tally_xml(invoice, line_items, existing_ledgers); the
\* set object is read (lines 104, 129, 146, 164) and never written
GenerateTallyXml ==
    /\ fn = "generate_tally_xml"
    /\ calls < MaxCalls
    /\ xml' = generate_tally_xml(invoice, line_items, existing_ledgers,
                                  today, uuid_calls)
    /\ uuid_calls' = uuid_calls + UuidsPerCall
    /\ calls' = calls + 1
    /\ UNCHANGED svc_vars
    /\ UNCHANGED <<fn, invoice, line_items, vouchers, create_masters,
                   existing_ledgers, today, payload, outcome, result, http_posts>>

\* a call of tally_service.generate_excel_import_xml(vouchers, create_masters);
\* its created_masters set is local to the call
GenerateExcelImportXml ==
    /\ fn = "generate_excel_import_xml"
    /\ calls < MaxCalls
    /\ xml' = generate_excel_import_xml(vouchers, create_masters)
    /\ calls' = calls + 1
    /\ UNCHANGED svc_vars
    /\ UNCHANGED <<fn, invoice, line_items, vouchers, create_masters,
                   existing_ledgers, today, uuid_calls, payload, outcome,
                   result, http_posts>>

\* a call of tally_service.push_to_tally(payload): the post is made, ends in
\* some way, and the result is returned
PushToTally ==
    /\ fn = "push_to_tally"
    /\ calls < MaxCalls
    /\ \E o \in Outcomes :
           /\ outcome' = o
           /\ result' = push_to_tally(payload, o)
    /\ http_posts' = http_posts + push_to_tally_posts(payload)
    /\ calls' = calls + 1
    /\ UNCHANGED svc_vars
    /\ UNCHANGED <<fn, invoice, line_items, vouchers, create_masters,
                   existing_ledgers, xml, today, uuid_calls, payload>>

\* a call of TallyBackendService.push_vouchers_to_tally(payload): a rejected
\* payload returns at once, any other is posted
PushVouchersToTally ==
    /\ fn = "push_vouchers_to_tally"
    /\ calls < MaxCalls
    /\ \E o \in IF PayloadRejected(payload) THEN {NoOutcome} ELSE Outcomes :
           /\ outcome' = o
           /\ result' = push_vouchers_to_tally(payload, o)
    /\ http_posts' = http_posts + push_vouchers_to_tally_posts(payload)
    /\ calls' = calls + 1
    /\ UNCHANGED svc_vars
    /\ UNCHANGED <<fn, invoice, line_items, vouchers, create_masters,
                   existing_ledgers, xml, today, uuid_calls, payload>>

Next == GenerateTallyXml \/ GenerateExcelImportXml

Spec == Init /\ [][Next]_vars

\* the behaviours of a caller that only pushes payloads
NextPush == PushToTally \/ PushVouchersToTally

SpecPush == InitPush /\ [][NextPush]_vars

\* the behaviours of a caller that only uses the Excel import encoder
SpecExcel == InitExcel /\ [][GenerateExcelImportXml]_vars

(***************************************************************************)
(* src/tally_service.py : generate_bank_statement_xml (lines 493-582).     *)
(* Amounts are in paise; a float is kept as its sign and its magnitude, so *)
(* that -0.0 and 0.0 are told apart where the code prints them.            *)
(***************************************************************************)
\* repr() of the float with this sign and this magnitude
FloatRepr(negative, mag) ==
    LET frac == mag % 100
        decimals == IF frac % 10 = 0 THEN IntStr(frac \div 10) ELSE Pad2(frac)
    IN  (IF negative THEN "-" ELSE "") \o IntStr(mag \div 100) \o "." \o decimals

\* one LEDGERENTRIES.LIST block (lines 547-559)
BankLeg(ledger, negative, mag) ==
    [ ledger |-> esc(ledger),
      deemed_positive |-> IF negative /\ mag > 0 THEN "Yes" ELSE "No",
      amount |-> IF negative THEN -mag ELSE mag,
      text |-> FloatRepr(negative, mag) ]

\* the voucher of a transaction whose receipt is booked as money going out
BankVoucher_ReceiptAsPayment(tx, bank_ledger) ==
    LET mag == Abs(GetOr(tx, "credit", 0, 0))
    IN  [ vch_type |-> "Bank", date |-> "", narration |-> "",
          entries |-> <<BankLeg(bank_ledger, TRUE, mag),
                        BankLeg("Suspense A/c", FALSE, mag)>> ]

\* the body of the loop over the transactions (lines 522-567)
BankVoucher(tx, bank_ledger) ==
    LET date == GetOr(tx, "date", "", "")
        description == GetOr(tx, "description", "Bank Transaction", "")
        txn_type == GetOr(tx, "type", "Payment", "")
        debit == GetOr(tx, "debit", 0, 0)
        credit == GetOr(tx, "credit", 0, 0)
        contra == GetOr(tx, "contraLedger", "Suspense A/c", "")
        formatted_date == IF Len(Fields(date, "-")) = 3
                          THEN ReplaceChar(date, "-", "") ELSE ""
        \* <<bank_amount is negative, its magnitude, contra_amount is negative>>
        amounts ==
            CASE txn_type = "Payment" -> <<TRUE, Abs(debit), FALSE>>
              [] txn_type = "Receipt" -> <<FALSE, Abs(credit), TRUE>>
              [] OTHER -> IF credit # 0 THEN <<FALSE, Abs(credit), TRUE>>
                          ELSE <<TRUE, Abs(debit), FALSE>>
    IN  [ vch_type |-> "Bank",
          date |-> formatted_date,
          narration |-> esc(description),
          entries |-> <<BankLeg(bank_ledger, amounts[1], amounts[2]),
                        BankLeg(contra, amounts[3], amounts[2])>> ]

generate_bank_statement_xml(data) ==
    LET bank_ledger == Get(data, "bankName", "Bank Account")
        transactions == Get(data, "transactions", <<>>)
    IN  [ status |-> "ok",
          masters |-> <<>>,
          vouchers |-> [i \in 1..Len(transactions) |->
                            BankVoucher(transactions[i], bank_ledger)] ]

\* the transactions the statements are made of
TransactionPool ==
    { [date |-> "2025-01-31", description |-> "Office rent", type |-> "Payment",
       debit |-> 150000, credit |-> 0, contraLedger |-> "Rent"],
      [date |-> "2025-02-01", description |-> "ATM withdrawal", type |-> "Payment",
       debit |-> 25050],
      [date |-> "2025-02-01", description |-> "Reversal", type |-> "Payment",
       debit |-> -9999, contraLedger |-> "Bank Charges"],
      [date |-> "2025-02-02", description |-> "Misfiled deposit", type |-> "Payment",
       credit |-> 5000],
      [date |-> "2025-02-03", description |-> "NEFT <ACME> & Co", type |-> "Receipt",
       debit |-> 0, credit |-> 1234567, contraLedger |-> "Acme Traders"],
      [date |-> "03/02/2025", description |-> "Cheque return", type |-> "Receipt",
       credit |-> -300],
      [date |-> "2025-02-04", description |-> "To savings", type |-> "Contra",
       debit |-> 0, credit |-> 50000, contraLedger |-> "Savings A/c"],
      [date |-> "2025-02-05", description |-> "Cash deposit", type |-> "Contra",
       debit |-> 70010, contraLedger |-> "Cash"],
      [date |-> "2025-02-06", description |-> "Sweep", type |-> "Contra",
       debit |-> 200, credit |-> 100],
      [date |-> "2025-02-07", description |-> "", type |-> "Contra"],
      [date |-> "", description |-> "UPI", debit |-> 45],
      [date |-> "2025-02-08", description |-> "Adjustment", type |-> "Journal",
       debit |-> 800, credit |-> 0] }

BankStatements ==
    { [bankName |-> "HDFC Bank - 1234", transactions |-> t] :
          t \in SeqsUpTo(TransactionPool, MaxTxns) }
    \cup { [transactions |-> t] : t \in SeqsUpTo(TransactionPool, 1) }

\* the caller is about to encode a parsed bank statement
InitBank ==
    /\ fn = "generate_bank_statement_xml"
    /\ bank_data \in BankStatements
    /\ calls = 0
    /\ today = FirstDay
    /\ uuid_calls = 0
    /\ text_arg = "" /\ returned = NoReturn
    /\ EncoderIdle /\ GatewayIdle /\ RetryIdle /\ FilesIdle

\* a call of generate_bank_statement_xml(bank_data)
GenerateBankStatementXml ==
    /\ fn = "generate_bank_statement_xml"
    /\ calls < MaxCalls
    /\ xml' = generate_bank_statement_xml(bank_data)
    /\ calls' = calls + 1
    /\ UNCHANGED svc_vars
    /\ UNCHANGED <<fn, invoice, line_items, vouchers, create_masters,
                   existing_ledgers, today, uuid_calls, payload, outcome,
                   result, http_posts>>

SpecBank == InitBank /\ [][GenerateBankStatementXml]_vars

(***************************************************************************)
(* src/main.py : calculate_totals (lines 489-555), the handler of          *)
(* POST /calculate-totals.  Amounts in paise, gstRate in rate units.       *)
(***************************************************************************)
\* round_strict(num) for num = n/d paise (line 517)
round_strict(n, d) == RoundHalfUp(n, d)

calculate_totals(items) ==
    LET amount(i) == Get(items[i], "amount", 0)
        gst_rate(i) == Get(items[i], "gstRate", 0)
        \* round_strict(amount * (gst_rate / 2) / 100), for cgst and for sgst
        half_tax(i) == round_strict(amount(i) * gst_rate(i), 2 * 100 * RateUnit)
        total_taxable == SeqSum([i \in 1..Len(items) |-> amount(i)])
        total_cgst == SeqSum([i \in 1..Len(items) |-> half_tax(i)])
        total_sgst == total_cgst
        total_gst == total_cgst + total_sgst
    IN  [ taxable |-> total_taxable,
          cgst |-> total_cgst,
          sgst |-> total_sgst,
          total |-> total_taxable + total_gst,
          lineItemTotals |-> [i \in 1..Len(items) |->
                                 [cgst |-> half_tax(i), sgst |-> half_tax(i)]] ]

\* the lines a client asks the totals of
TotalsItemPool ==
    { [amount |-> 100000, gstRate |-> 18 * RateUnit],   \* 1000.00 at 18%
      [amount |-> 100, gstRate |-> 5 * RateUnit],       \* 1.00 at 5%
      [amount |-> 9999, gstRate |-> 5 * RateUnit],      \* 99.99 at 5%
      [amount |-> 1010, gstRate |-> RateUnit \div 4],   \* 10.10 at 0.25%
      [amount |-> 250000, gstRate |-> 12 * RateUnit],   \* 2500.00 at 12%
      [amount |-> 30, gstRate |-> 28 * RateUnit] }      \* 0.30 at 28%

\* a client is about to post line items to /calculate-totals
InitTotals ==
    /\ fn = "calculate_totals"
    /\ line_items \in SeqsUpTo(TotalsItemPool, MaxItems)
    /\ calls = 0
    /\ xml = NoDocument /\ invoice = [invoice_number |-> ""]
    /\ vouchers = <<>> /\ create_masters = TRUE /\ existing_ledgers = {}
    /\ today = FirstDay
    /\ uuid_calls = 0
    /\ GatewayIdle /\ ServiceIdle

\* a request POST /calculate-totals {"lineItems": line_items}
CalculateTotals ==
    /\ fn = "calculate_totals"
    /\ calls < MaxCalls
    /\ returned' = [raised |-> FALSE, value |-> calculate_totals(line_items)]
    /\ calls' = calls + 1
    /\ UNCHANGED <<fn, invoice, line_items, vouchers, create_masters,
                   existing_ledgers, xml, today, uuid_calls, payload, outcome,
                   result, http_posts, text_arg, bank_data, max_attempts,
                   base_delay, service, invocations, sleeps, _uploaded_files,
                   cleanup_calls, upload_dir, written>>

SpecTotals == InitTotals /\ [][CalculateTotals]_vars

(***************************************************************************)
(* src/genai_service.py : retry_with_backoff (lines 211-227).  The wrapped *)
(* function is given by what its successive invocations do: outcomes[k] is *)
(* [raised |-> TRUE, value |-> the exception] or [raised |-> FALSE,        *)
(* value |-> the result] for invocation k.                                 *)
(***************************************************************************)
RECURSIVE RetryLoop(_, _, _, _, _)
\* the iterations of the for loop from `attempt` on, after the sleeps `slept`
RetryLoop(n, d, outcomes, attempt, slept) ==
    IF attempt >= n
    THEN \* range(max_attempts) is exhausted: raise last (line 225)
         [ returned |-> [raised |-> TRUE, value |-> "last"],
           invocations |-> attempt, sleeps |-> slept ]
    ELSE LET o == outcomes[attempt + 1]
         IN  IF ~o.raised
             THEN [returned |-> o, invocations |-> attempt + 1, sleeps |-> slept]
             ELSE IF attempt < n - 1
             THEN RetryLoop(n, d, outcomes, attempt + 1,
                            Append(slept, d * 2^attempt))
             ELSE [returned |-> o, invocations |-> attempt + 1, sleeps |-> slept]

\* a wrapper that gives up after the first attempt
retry_with_backoff_Once(n, d, outcomes) == RetryLoop(1, d, outcomes, 0, <<>>)

\* one call of the wrapper returned by retry_with_backoff(n, d)(func)
retry_with_backoff(n, d, outcomes) == RetryLoop(n, d, outcomes, 0, <<>>)

\* what an invocation of a wrapped function can do
FuncOutcomes ==
    { [raised |-> TRUE, value |-> "ConnectionError"],
      [raised |-> TRUE, value |-> "ValueError"],
      [raised |-> FALSE, value |-> "first result"],
      [raised |-> FALSE, value |-> "second result"] }

\* a caller is about to call a function wrapped with max_attempts and
\* base_delay
InitRetry ==
    /\ fn = "retry_with_backoff"
    /\ max_attempts \in 1..MaxAttempts
    /\ base_delay \in {1, 2}
    /\ service \in [1..max_attempts -> FuncOutcomes]
    /\ invocations = 0 /\ sleeps = <<>>
    /\ calls = 0
    /\ today = FirstDay
    /\ uuid_calls = 0
    /\ EncoderIdle /\ GatewayIdle /\ TextIdle /\ FilesIdle

\* one call of the wrapped function
CallWrapped ==
    /\ fn = "retry_with_backoff"
    /\ calls < MaxCalls
    /\ LET r == retry_with_backoff(max_attempts, base_delay, service)
       IN  /\ returned' = r.returned
           /\ invocations' = r.invocations
           /\ sleeps' = r.sleeps
    /\ calls' = calls + 1
    /\ UNCHANGED <<fn, invoice, line_items, vouchers, create_masters,
                   existing_ledgers, xml, today, uuid_calls, payload, outcome,
                   result, http_posts, text_arg, bank_data, max_attempts,
                   base_delay, service, _uploaded_files, cleanup_calls,
                   upload_dir, written>>

SpecRetry == InitRetry /\ [][CallWrapped]_vars

(***************************************************************************)
(* src/genai_service.py : parse_invoice_with_gemini (lines 264-309) and    *)
(* parse_bank_statement_with_gemini (lines 311-491), both decorated with   *)
(* retry_with_backoff(max_attempts=3, base_delay=1).  An event names what  *)
(* the model service does during one invocation of the body.               *)
(***************************************************************************)
RetryAttempts == 3
RetryBaseDelay == 1

\* uploaded.uri of the k-th upload
Uri(k) == "files/" \o IntStr(k)

ParseFunctions == {"parse_invoice_with_gemini", "parse_bank_statement_with_gemini"}

\* the events of an invocation: the file type is not supported, upload_file
\* raises, generate_content raises, the response holds no JSON or broken
\* JSON, the response parses; for a bank statement also: the parsed document
\* is an invoice, a transaction is not an object, and a PDF chunk that is
\* parsed or whose generate_content raises
ParseEvents(f) ==
    {"unsupported_type", "upload_raises", "generate_raises", "no_json",
     "bad_json", "ok"}
    \cup IF f = "parse_bank_statement_with_gemini"
         THEN {"invoice_detected", "bad_transaction", "chunk_ok", "chunk_raises"}
         ELSE {}

\* one invocation of the body: what it returns or raises, whether it
\* appended an uploaded file to _uploaded_files, and whether it called
\* cleanup_uploaded_file (lines 235-249) for that file
parse_body(f, event) ==
    LET uploads == event \notin {"unsupported_type", "upload_raises"}
        cleans == event \in {"no_json", "bad_json", "ok", "invoice_detected",
                             "chunk_ok"}
        value ==
            CASE event = "ok" \/ event = "chunk_ok" ->
                     [documentType |-> IF f = "parse_invoice_with_gemini"
                                       THEN "INVOICE" ELSE "BANK_STATEMENT"]
              [] event = "unsupported_type" -> [error |-> "Unsupported file type"]
              [] event = "no_json" -> [error |-> "No JSON found in AI response"]
              [] event = "bad_json" -> [error |-> "JSON decode error"]
              [] event = "invoice_detected" ->
                     [error |-> "Detected TAX INVOICE inside bank statement area"]
              [] event = "chunk_raises" ->
                     [error |-> "No valid bank statement data extracted from PDF chunks"]
              [] OTHER -> [error |-> "str(e)"]   \* except Exception as e
    IN  [ outcome |-> [raised |-> FALSE, value |-> value],
          uploaded |-> uploads,
          cleaned |-> uploads /\ cleans ]

\* one call of the decorated function when the invocations meet `events`,
\* _uploaded_files holds `files` and `base` uploads were made before
parse_with_gemini(f, events, files, base) ==
    LET bodies == [k \in 1..Len(events) |-> parse_body(f, events[k])]
        r == retry_with_backoff(RetryAttempts, RetryBaseDelay,
                                [k \in 1..Len(events) |-> bodies[k].outcome])
        left == SortedSeq({k \in 1..r.invocations :
                               bodies[k].uploaded /\ ~bodies[k].cleaned})
    IN  [ returned |-> r.returned,
          invocations |-> r.invocations,
          sleeps |-> r.sleeps,
          files |-> files \o [i \in 1..Len(left) |-> Uri(base + left[i])],
          cleaned |-> {Uri(base + k) : k \in {j \in 1..r.invocations :
                                                  bodies[j].cleaned}} ]

\* a caller is about to parse a file
InitParse ==
    /\ fn \in ParseFunctions
    /\ max_attempts = RetryAttempts
    /\ base_delay = RetryBaseDelay
    /\ service \in [1..RetryAttempts -> ParseEvents(fn)]
    /\ invocations = 0 /\ sleeps = <<>>
    /\ calls = 0
    /\ today = FirstDay
    /\ uuid_calls = 0
    /\ EncoderIdle /\ GatewayIdle /\ TextIdle /\ FilesIdle

\* one call of parse_invoice_with_gemini or parse_bank_statement_with_gemini
ParseWithGemini ==
    /\ fn \in ParseFunctions
    /\ calls < MaxCalls
    /\ LET r == parse_with_gemini(fn, service, _uploaded_files,
                                  calls * RetryAttempts)
       IN  /\ returned' = r.returned
           /\ invocations' = r.invocations
           /\ sleeps' = r.sleeps
           /\ _uploaded_files' = r.files
           /\ cleanup_calls' = cleanup_calls \cup r.cleaned
    /\ calls' = calls + 1
    /\ UNCHANGED <<fn, invoice, line_items, vouchers, create_masters,
                   existing_ledgers, xml, today, uuid_calls, payload, outcome,
                   result, http_posts, text_arg, bank_data, max_attempts,
                   base_delay, service, upload_dir, written>>

SpecParse == InitParse /\ [][ParseWithGemini]_vars

(***************************************************************************)
(* src/main.py : process_invoice (lines 304-419) and                       *)
(* process_bank_statement (lines 422-485), called with the default         *)
(* use_gemini_direct = True, and save_upload_file                          *)
(* (src/FILE: /backend/utils.py, lines 34-59).                             *)
(***************************************************************************)
Handlers == {"process_invoice", "process_bank_statement"}

\* save_upload_file(file, UPLOAD_DIR) when n uuid4 values were drawn before:
\* the name it gives the file, whether open() created the file in UPLOAD_DIR,
\* and whether the function raised (open failed, or a read or write of the
\* copy loop failed after the file was created)
save_upload_file(how, n) ==
    [ file_id |-> Uuid4(n + 1) \o ".png",
      created |-> how # "open_fails",
      raised |-> how # "saved" ]

\* how the services behave during one request: saving the upload, the
\* invocations of the parser, building the response, removing the file
HandlerServices ==
    [ save : {"saved", "open_fails", "write_fails"},
      parse : [1..RetryAttempts -> {"generate_raises", "bad_json", "ok"}],
      format : {"ok", "raises"},
      remove : {"ok", "fails"} ]

\* a client is about to post a file
InitHandler ==
    /\ fn \in Handlers
    /\ service \in HandlerServices
    /\ max_attempts = RetryAttempts
    /\ base_delay = RetryBaseDelay
    /\ invocations = 0 /\ sleeps = <<>>
    /\ calls = 0
    /\ today = FirstDay
    /\ uuid_calls = 0
    /\ EncoderIdle /\ GatewayIdle /\ TextIdle /\ FilesIdle

\* one request POST /process-invoice or POST /process-bank-statement: the
\* whole handler, its finally block included
ProcessUpload ==
    /\ fn \in Handlers
    /\ calls < MaxCalls
    /\ LET saved == save_upload_file(service.save, uuid_calls)
           \* file_path is set once save_upload_file has returned
           file_path_set == ~saved.raised
           parsed == parse_with_gemini(
                         IF fn = "process_invoice" THEN "parse_invoice_with_gemini"
                         ELSE "parse_bank_statement_with_gemini",
                         service.parse, _uploaded_files, calls * RetryAttempts)
           status == IF saved.raised THEN 500
                     ELSE IF parsed.returned.raised THEN 500
                     ELSE IF "error" \in DOMAIN parsed.returned.value THEN 422
                     ELSE IF service.format = "raises" THEN 500
                     ELSE 200
           created == IF saved.created THEN {saved.file_id} ELSE {}
           removed == IF file_path_set /\ service.remove = "ok"
                      THEN {saved.file_id} ELSE {}
       IN  /\ returned' = [raised |-> status # 200, value |-> status]
           /\ written' = created
           /\ upload_dir' = (upload_dir \cup created) \ removed
           /\ uuid_calls' = uuid_calls + (IF status = 200 THEN 2 ELSE 1)
           /\ IF file_path_set
              THEN /\ invocations' = parsed.invocations
                   /\ sleeps' = parsed.sleeps
                   /\ _uploaded_files' = parsed.files
                   /\ cleanup_calls' = cleanup_calls \cup parsed.cleaned
              ELSE /\ invocations' = 0
                   /\ sleeps' = <<>>
                   /\ UNCHANGED <<_uploaded_files, cleanup_calls>>
    /\ calls' = calls + 1
    /\ UNCHANGED <<fn, invoice, line_items, vouchers, create_masters,
                   existing_ledgers, xml, today, payload, outcome,
                   result, http_posts, text_arg, bank_data, max_attempts,
                   base_delay, service>>

SpecHandler == InitHandler /\ [][ProcessUpload]_vars

(***************************************************************************)
(* The text functions called on their own.                                 *)
(***************************************************************************)
\* the value f(s) of the text function named f, on the day `now`
TextCall(f, s, now) ==
    CASE f = "clean_name" -> clean_name(s)
      [] f = "TallyBackendService.clean_name" -> backend_clean_name(s)
      [] f = "esc" -> esc(s)
      [] f = "TallyBackendService.escape_xml" -> escape_xml(s)
      [] f = "format_date_for_xml" -> format_date_for_xml(s, now)

TextFunctions ==
    {"clean_name", "TallyBackendService.clean_name", "esc",
     "TallyBackendService.escape_xml", "format_date_for_xml"}

\* a name of 49 letters: one more character reaches the limit of clean_name
Letters49 == "Abcdefghi Bcdefghij Cdefghijk Defghijkl Efghijklm"

\* names, markup and dates: empty, blank, only disallowed characters, runs
\* of blanks, tabs, every escaped character, names longer than the limit
TextInputs ==
    { "", "   ", "@@@", "Acme Traders", "A  B", "Tab\tName", " Lead & Trail ",
      "R&D  <Supplies> Pvt. Ltd (India) @ 18%", "O'Brien \"Q\" <x> & y",
      "&amp;", "a<b>c", Letters49 \o "X" \o "YZ", Letters49 \o " " \o "tail",
      "#" \o Letters49 \o "####" \o "Nop",
      "2025-01-31", "31-01-2025", "1-2-2025", "31/01/2025", "5.1.2025",
      "2025-01-31\n", "31 Jan 2025", "2025-1-5", "2025-13-45", "31-01-25" }

\* the caller is about to call one text function on one string
InitText ==
    /\ fn \in TextFunctions
    /\ text_arg \in TextInputs
    /\ returned = NoReturn
    /\ bank_data = [transactions |-> <<>>]
    /\ calls = 0
    /\ today \in Days
    /\ uuid_calls = 0
    /\ EncoderIdle /\ GatewayIdle /\ RetryIdle /\ FilesIdle

\* a call of the text function fn on text_arg
ApplyTextFunction ==
    /\ fn \in TextFunctions
    /\ calls < MaxCalls
    /\ returned' = [raised |-> FALSE, value |-> TextCall(fn, text_arg, today)]
    /\ calls' = calls + 1
    /\ UNCHANGED <<fn, text_arg, today, bank_data, uuid_calls, xml, invoice,
                   line_items, vouchers, create_masters, existing_ledgers,
                   payload, outcome, result, http_posts, max_attempts,
                   base_delay, service, invocations, sleeps, _uploaded_files,
                   cleanup_calls, upload_dir, written>>

SpecText == InitText /\ [][ApplyTextFunction]_vars

(***************************************************************************)
(* Vocabulary of the properties.                                           *)
(***************************************************************************)
TallyEncoded == fn = "generate_tally_xml" /\ calls >= 1
ExcelEncoded == fn = "generate_excel_import_xml" /\ calls >= 1 /\ xml.status = "ok"
Encoded == TallyEncoded \/ ExcelEncoded

\* the sum of the AMOUNT values of a list of ledger entries, in paise
EntrySum(es) == SeqSum([i \in 1..Len(es) |-> es[i].amount])

\* the voucher type the caller asked for, for voucher i of the document
RequestedType(i) ==
    IF fn = "generate_tally_xml" THEN "Purchase" ELSE vouchers[i].voucherType

\* the registration number the caller supplied for voucher i
RequestedGstin(i) ==
    IF fn = "generate_tally_xml" THEN GetOr(invoice, "gstin", "", "")
    ELSE Get(vouchers[i], "gstin", "")

\* the line items the caller supplied for voucher i
RequestedItems(i) ==
    IF fn = "generate_tally_xml" THEN line_items
    ELSE Get(vouchers[i], "items", <<>>)

(***************************************************************************)
(* C1 - Balance: the AMOUNT values of all ledger entries of the voucher    *)
(* rendered by generate_tally_xml sum to 0 within 0.01, for any line items *)
(* (quantities, unit rates and tax rates of any sign).                     *)
(* The code breaks this for a negative quantity or tax rate: the party     *)
(* entry carries the signed total while purchase entries are forced        *)
(* negative (-abs) and non-positive tax totals are dropped.                *)
(***************************************************************************)
C1_Balance ==
    TallyEncoded => \A i \in 1..Len(xml.vouchers) :
                        Abs(EntrySum(xml.vouchers[i].entries)) < 1

(***************************************************************************)
(* C2 - Sign convention: the party amount equals the total of the bucket   *)
(* and tax amounts; in a Purchase voucher the party AMOUNT is >= 0 and     *)
(* every bucket and tax AMOUNT is <= 0, in a Sales voucher the signs are   *)
(* inverted.  For generate_tally_xml and generate_excel_import_xml.        *)
(* The code renders a Sales voucher with the Purchase signs.               *)
(***************************************************************************)
C2_SignByDirection ==
    Encoded => \A i \in 1..Len(xml.vouchers) :
        LET es == xml.vouchers[i].entries
            party == es[1].amount
            others == SubSeq(es, 2, Len(es))
        IN  /\ Abs(party) = Abs(EntrySum(others))
            /\ IF RequestedType(i) = "Sales"
               THEN party <= 0 /\ \A j \in 1..Len(others) : others[j].amount >= 0
               ELSE party >= 0 /\ \A j \in 1..Len(others) : others[j].amount <= 0

(***************************************************************************)
(* C3 - Entry order and flags: in every rendered voucher the ledger        *)
(* entries are the party entry, then the purchase/sale bucket entries,     *)
(* then the tax-duty entries; exactly one entry has ISPARTYLEDGER=Yes, it  *)
(* is the first one and has ISDEEMEDPOSITIVE=No; every bucket and tax      *)
(* entry has ISPARTYLEDGER=No and ISDEEMEDPOSITIVE=Yes.  Any number of     *)
(* line items, including none.                                             *)
(***************************************************************************)
C3_EntryOrderAndFlags ==
    Encoded => \A i \in 1..Len(xml.vouchers) :
        LET es == xml.vouchers[i].entries
        IN  /\ Len(es) >= 1
            /\ es[1].kind = "party"
            /\ es[1].isPartyLedger = "Yes"
            /\ es[1].isDeemedPositive = "No"
            /\ Cardinality({j \in 1..Len(es) : es[j].isPartyLedger = "Yes"}) = 1
            /\ \A j \in 2..Len(es) :
                   /\ es[j].kind \in {"purchase", "tax"}
                   /\ es[j].isPartyLedger = "No"
                   /\ es[j].isDeemedPositive = "Yes"
            /\ \A j, k \in 2..Len(es) :
                   (j < k /\ es[j].kind = "tax") => es[k].kind = "tax"

\* a voucher with two purchase buckets followed by tax entries has been
\* rendered
C3_Witness ==
    /\ TallyEncoded
    /\ LET es == xml.vouchers[1].entries
       IN  /\ Len(es) >= 5
           /\ es[2].kind = "purchase" /\ es[3].kind = "purchase"
           /\ es[Len(es)].kind = "tax"

C6_IgstXorCgstSgst ==
    TallyEncoded =>
        LET es == xml.vouchers[1].entries
            names == {xml.masters[j].name :
                         j \in {j \in 1..Len(xml.masters) : xml.masters[j].dutyHead # ""}}
                     \cup {es[j].ledgerName : j \in {j \in 1..Len(es) : es[j].kind = "tax"}}
            heads == {xml.masters[j].dutyHead : j \in 1..Len(xml.masters)}
        IN  /\ ~(\E n \in names : StartsWith(n, "Input IGST")
                 /\ \E m \in names : StartsWith(m, "Input CGST") \/ StartsWith(m, "Input SGST"))
            /\ ~("Integrated Tax" \in heads /\ heads \cap {"Central Tax", "State Tax"} # {})

\* two rate buckets, each with tax masters and tax entries
C6_Witness ==
    /\ TallyEncoded
    /\ Cardinality(UniqueRates(line_items)) = 2
    /\ Cardinality({j \in 1..Len(xml.masters) : xml.masters[j].dutyHead # ""}) >= 3
    /\ Cardinality({j \in 1..Len(xml.vouchers[1].entries) :
                       xml.vouchers[1].entries[j].kind = "tax"}) >= 3

(***************************************************************************)
(* C7 - Rendered amounts: for an invoice whose line items all have a       *)
(* positive amount and a positive tax rate, generate_tally_xml renders     *)
(*   party AMOUNT = sum over lines of (amount + tax), with                 *)
(*     amount = round(quantity x rate, 2), tax = round(amount x r / 100, 2)*)
(*   each purchase-bucket AMOUNT = minus the sum of the amounts of the     *)
(*     lines with that tax rate,                                           *)
(*   each tax-duty AMOUNT = minus the tax accumulated for that ledger      *)
(*     (IGST: the line taxes; CGST: the rounded halves; SGST: the rests).  *)
(* One line of 1000 at 18% with an intra-state party gives the entries     *)
(* party +1180.00, purchase -1000.00, CGST -90.00, SGST -90.00 and, unless *)
(* already known, the masters CGST@9% and SGST@9% and no IGST master.      *)
(***************************************************************************)
C7_RenderedAmounts ==
    TallyEncoded =>
        LET n == Len(line_items)
            explicit == \A k \in 1..n :
                /\ {"qty", "rate", "gst_rate"} \subseteq DOMAIN line_items[k]
                /\ line_items[k].qty > 0 /\ line_items[k].rate > 0
                /\ line_items[k].gst_rate > 0
            amount(k) == RoundHalfUp(line_items[k].qty * line_items[k].rate, QtyUnit)
            rate(k) == line_items[k].gst_rate
            tax(k) == RoundHalfUp(amount(k) * rate(k), 100 * RateUnit)
            number == Upper(Strip(GetOr(invoice, "gstin", "", "")))
            inter == Len(number) = 15 /\ SubSeq(number, 1, 2) # "27"
            es == xml.vouchers[1].entries
            ofKind(kd) == {j \in 1..Len(es) : es[j].kind = kd}
            \* what line k adds to the tax ledger called name
            share(k, name) ==
                IF inter
                THEN (IF name = IgstName(rate(k)) THEN tax(k) ELSE 0)
                ELSE (IF name = CgstName(rate(k)) THEN (tax(k) + 1) \div 2 ELSE 0)
                     + (IF name = SgstName(rate(k)) THEN tax(k) - (tax(k) + 1) \div 2 ELSE 0)
            accumulated(name) == SeqSum([k \in 1..n |-> share(k, name)])
            ledgersOf(k) == IF inter THEN {IgstName(rate(k))}
                            ELSE {CgstName(rate(k)), SgstName(rate(k))}
            example == /\ line_items = <<[qty |-> 100, rate |-> 100000,
                                          gst_rate |-> 18 * RateUnit]>>
                       /\ ~inter
        IN  /\ (explicit /\ \A k \in 1..n : amount(k) > 0) =>
                /\ es[1].amount = SeqSum([k \in 1..n |-> amount(k) + tax(k)])
                /\ Cardinality(ofKind("purchase")) = Cardinality({rate(k) : k \in 1..n})
                /\ \A k \in 1..n : \E j \in ofKind("purchase") :
                       /\ es[j].ledgerName = "PURCHASE @" \o RateKeyStr(rate(k)) \o "%"
                       /\ es[j].amount = - SeqSum([l \in 1..n |->
                                               IF rate(l) = rate(k) THEN amount(l) ELSE 0])
                /\ \A j \in ofKind("tax") :
                       es[j].amount = - accumulated(es[j].ledgerName)
                /\ \A k \in 1..n : \A name \in ledgersOf(k) :
                       accumulated(name) > 0 =>
                           \E j \in ofKind("tax") : es[j].ledgerName = name
            /\ example =>
                /\ [j \in 1..Len(es) |-> <<es[j].ledgerName, es[j].amount>>]
                       = << <<xml.vouchers[1].partyLedgerName, 118000>>,
                            <<"PURCHASE @18%", -100000>>,
                            <<"Input CGST@9%", -9000>>,
                            <<"Input SGST@9%", -9000>> >>
                /\ \A name \in {"Input CGST@9%", "Input SGST@9%"} :
                       name \notin existing_ledgers =>
                           \E j \in 1..Len(xml.masters) : xml.masters[j].name = name
                /\ \A j \in 1..Len(xml.masters) :
                       xml.masters[j].dutyHead # "Integrated Tax"

\* the end-to-end scenario: one line of 1000 at 18%, supplier registered in
\* the home state, nothing known yet, rendered with its four entries
C7_Witness ==
    /\ TallyEncoded
    /\ line_items = <<[qty |-> 100, rate |-> 100000, gst_rate |-> 18 * RateUnit]>>
    /\ GetOr(invoice, "gstin", "", "") = Gstin27
    /\ existing_ledgers = {}
    /\ Len(xml.vouchers[1].entries) = 4
    /\ xml.vouchers[1].entries[1].amount = 118000
    /\ \E j \in 1..Len(xml.masters) : xml.masters[j].name = "Input SGST@9%"

C9_NoMasterForKnownLedger ==
    TallyEncoded =>
        \A j \in 1..Len(xml.masters) :
            xml.masters[j].tag = "LEDGER" => xml.masters[j].name \notin existing_ledgers

\* the party, the 18% purchase ledger and the 9% tax ledgers of the record
\* are all known, and the document creates none of them
C9_Witness ==
    /\ TallyEncoded
    /\ xml.vouchers[1].partyLedgerName \in existing_ledgers
    /\ "PURCHASE @18%" \in existing_ledgers
    /\ "Input CGST@9%" \in existing_ledgers
    /\ 18 * RateUnit \in UniqueRates(line_items)
    /\ ~IsInterState(Upper(Strip(GetOr(invoice, "gstin", "", ""))))
    /\ \E j \in 1..Len(xml.vouchers[1].entries) :
           xml.vouchers[1].entries[j].ledgerName = "Input CGST@9%"
    /\ \A j \in 1..Len(xml.masters) :
           xml.masters[j].name \notin {xml.vouchers[1].partyLedgerName,
                                       "PURCHASE @18%", "Input CGST@9%"}

(***************************************************************************)
(* C10 - Idempotent master creation: generate_tally_xml adds the name of   *)
(* every ledger master it emits to the caller's known-ledger set, so a     *)
(* second call with the same record and the same set emits no LEDGER       *)
(* create master.                                                          *)
(* The code only reads the set: the second call repeats every master.      *)
(***************************************************************************)
C10_MastersAddedToKnownSet ==
    TallyEncoded =>
        /\ \A j \in 1..Len(xml.masters) :
               xml.masters[j].tag = "LEDGER" => xml.masters[j].name \in existing_ledgers
        /\ calls >= 2 =>
               \A j \in 1..Len(xml.masters) : xml.masters[j].tag # "LEDGER"

(***************************************************************************)
(* The gateway claims.                                                     *)
(***************************************************************************)
\* the latest call was a push by the named function
PushedBy(name) == fn = name /\ calls >= 1

\* the latest push received a response (requests.post returned)
Responded == outcome.kind = "Response"

(***************************************************************************)
(* C11 - Interpretation rule of push_to_tally: for every response body, if *)
(* a <LINEERROR> tag is present the result is a failure whose message is   *)
(* the tag's inner text; otherwise, with created, altered and errors read  *)
(* from <CREATED>, <ALTERED>, <ERRORS> (an absent tag counts 0), the       *)
(* result is a failure when errors > 0, else a success when created > 0 or *)
(* altered > 0, else a failure.                                            *)
(* The code never reads <ALTERED>: an altered-only response is a failure.  *)
(***************************************************************************)
C11_PriorityRule ==
    (PushedBy("push_to_tally") /\ Responded) =>
        LET text == outcome.text
            created == CountTag(text, "CREATED")
            altered == CountTag(text, "ALTERED")
            errors == CountTag(text, "ERRORS")
        IN  IF Contains(text, "<LINEERROR>")
            THEN /\ result.success = FALSE
                 /\ LineErrorSearch(text).matched =>
                        result.message = LineErrorSearch(text).group
            ELSE result.success = (errors = 0 /\ (created > 0 \/ altered > 0))

(***************************************************************************)
(* C12 - No ambiguous success in push_vouchers_to_tally: the call reports  *)
(* success only for a 200 response with a recognizable positive outcome,   *)
(* that is with no <ERRORS> count above 0 and with created > 0 or          *)
(* altered > 0; a 200 response without outcome tag is a failure.           *)
(* The code reports success whenever it finds no <ERROR ...>, <LINEERROR>  *)
(* or <IMPORTERROR> element with text.                                     *)
(***************************************************************************)
C12_NoAmbiguousSuccess ==
    (PushedBy("push_vouchers_to_tally") /\ result.success) =>
        /\ Responded
        /\ outcome.status_code = 200
        /\ CountTag(outcome.text, "ERRORS") = 0
        /\ \/ CountTag(outcome.text, "CREATED") > 0
           \/ CountTag(outcome.text, "ALTERED") > 0

(***************************************************************************)
(* C13 - Transport failures: when the post of push_to_tally or of          *)
(* push_vouchers_to_tally ends with an exception or with a status other    *)
(* than 200, the call returns a result with success = false, whatever the  *)
(* body contains.                                                          *)
(* push_to_tally never reads the status code.                              *)
(***************************************************************************)
C13_TransportFailureIsFailure ==
    ((PushedBy("push_to_tally") \/ PushedBy("push_vouchers_to_tally"))
        /\ (outcome.raised \/ (Responded /\ outcome.status_code # 200))) =>
        result.success = FALSE

(***************************************************************************)
(* C14 - Minimum payload length: a payload that is empty or has fewer than *)
(* 50 characters after trimming is rejected with a failure result and no   *)
(* HTTP request is sent, by push_to_tally and by push_vouchers_to_tally.   *)
(* push_to_tally posts every payload.                                      *)
(***************************************************************************)
C14_ShortPayloadNotPosted ==
    ((PushedBy("push_to_tally") \/ PushedBy("push_vouchers_to_tally"))
        /\ (payload = "" \/ Len(Strip(payload)) < 50)) =>
        /\ result.success = FALSE
        /\ http_posts = 0

(***************************************************************************)
(* The edge-case claims: zero amounts, zero rates, absent fields.          *)
(***************************************************************************)
\* the taxable amount the encoder computes for line j of voucher i
RequestedAmount(i, j) ==
    IF fn = "generate_tally_xml" THEN LineAmount(RequestedItems(i)[j])
    ELSE ExcelItemAmount(RequestedItems(i)[j])

\* the tax rate the caller supplied for line j of voucher i, when it supplied one
HasRequestedRate(i, j) ==
    (IF fn = "generate_tally_xml" THEN "gst_rate" ELSE "taxRate")
        \in DOMAIN RequestedItems(i)[j]

RequestedRate(i, j) ==
    IF fn = "generate_tally_xml" THEN RequestedItems(i)[j].gst_rate
    ELSE RequestedItems(i)[j].taxRate

\* the entries of voucher i of the document that are not the party entry
BucketAndTaxEntries(i) ==
    LET es == xml.vouchers[i].entries
    IN  {es[j] : j \in {k \in 1..Len(es) : es[k].kind # "party"}}

(***************************************************************************)
(* C15 - A line item whose amount is zero is skipped entirely: a voucher   *)
(* whose line items all have amount 0 contains no purchase-bucket entry    *)
(* and no tax entry, in generate_tally_xml and generate_excel_import_xml.  *)
(* generate_tally_xml has no such skip: a line of amount 0 still opens its *)
(* rate bucket and the bucket is rendered with AMOUNT -0.00.               *)
(***************************************************************************)
C15_ZeroAmountSkipped ==
    Encoded => \A i \in 1..Len(xml.vouchers) :
        (\A j \in 1..Len(RequestedItems(i)) : RequestedAmount(i, j) = 0)
            => BucketAndTaxEntries(i) = {}

(***************************************************************************)
(* C16 - A line item with a positive amount and a tax rate of exactly zero *)
(* produces a purchase-bucket entry for the 0% bucket, no tax-duty entry   *)
(* and no tax-duty master, in generate_tally_xml and in                    *)
(* generate_excel_import_xml.                                              *)
(* generate_tally_xml reads the rate as "gst_rate or 18", so a rate of 0   *)
(* is replaced by 18%: the line lands in the 18% bucket and is taxed.      *)
(***************************************************************************)
C16_ZeroRateBucketNoTax ==
    LET \* voucher i has at least one line, and every line has a positive
        \* amount and a supplied tax rate of exactly zero
        ZeroRated(i) ==
            /\ Len(RequestedItems(i)) >= 1
            /\ \A j \in 1..Len(RequestedItems(i)) :
                  /\ RequestedAmount(i, j) > 0
                  /\ HasRequestedRate(i, j)
                  /\ RequestedRate(i, j) = 0
        \* the masters of the document that are tax-duty ledgers
        TaxDutyMasters ==
            {xml.masters[k] : k \in {m \in 1..Len(xml.masters) :
                                         xml.masters[m].parent = "Duties & Taxes"}}
    IN  Encoded =>
            /\ \A i \in 1..Len(xml.vouchers) :
                  ZeroRated(i) =>
                      {<<e.kind, e.ledgerName>> : e \in BucketAndTaxEntries(i)}
                          = {<<"purchase", "PURCHASE @0%">>}
            /\ (\A i \in 1..Len(xml.vouchers) : ZeroRated(i)) => TaxDutyMasters = {}

\* the encoder has been called at least once on the held request
EncoderCalled ==
    fn \in {"generate_tally_xml", "generate_excel_import_xml"} /\ calls >= 1

(***************************************************************************)
(* C17 - Encoding never fails because a field is absent or a date is       *)
(* unparseable: generate_tally_xml and generate_excel_import_xml return a  *)
(* document without raising, a voucher without a date carries the current  *)
(* date, a voucher without a party name carries the placeholder name, and  *)
(* a line item without a tax rate is booked at the default rate of 18%.    *)
(* generate_excel_import_xml raises on a voucher without "date" or         *)
(* "voucherType" and on a date that is not YYYY-MM-DD, and it books a line *)
(* without a tax rate at 0%.                                               *)
(***************************************************************************)
C17_NeverFailsDefaults ==
    LET \* the request record voucher i of the document was rendered from
        RequestedRecord(i) ==
            IF fn = "generate_tally_xml" THEN invoice ELSE vouchers[i]
        DateField == IF fn = "generate_tally_xml" THEN "invoice_date" ELSE "date"
        PartyField ==
            IF fn = "generate_tally_xml" THEN "supplier_name" ELSE "partyName"
        \* the placeholder party names of the two encoders
        PlaceholderParties == {"Cash Party", "Party"}
    IN  EncoderCalled =>
            /\ xml.status # "raised"
            /\ \A i \in 1..Len(xml.vouchers) :
                  /\ DateField \notin DOMAIN RequestedRecord(i)
                        => xml.vouchers[i].date = today
                  /\ PartyField \notin DOMAIN RequestedRecord(i)
                        => xml.vouchers[i].partyLedgerName \in PlaceholderParties
                  /\ \A j \in 1..Len(RequestedItems(i)) :
                        (RequestedAmount(i, j) > 0 /\ ~HasRequestedRate(i, j))
                            => \E e \in BucketAndTaxEntries(i) :
                                   e.ledgerName = "PURCHASE @"
                                       \o IntStr(DefaultGstRate) \o "%"

(***************************************************************************)
(* C18 - When the party's registration number does not have exactly 15     *)
(* characters, the party master and the voucher carry no registration      *)
(* number and the party's jurisdiction is the fallback region Maharashtra, *)
(* never a state derived from the malformed number.                        *)
(* generate_tally_xml writes PARTYGSTIN whenever the number is non-empty   *)
(* and derives STATENAME from its first two characters whatever its        *)
(* length, while deciding intra/inter-state by the 15-character test.      *)
(***************************************************************************)
C18_MalformedGstinAbsent ==
    LET \* the registration number of voucher i as both encoders normalise it
        CleanGstin(i) == Upper(Strip(RequestedGstin(i)))
        \* the party masters the document creates for the party of voucher
        \* i, when voucher i is the first voucher of that party
        PartyMastersOf(i) ==
            IF \E h \in 1..(i - 1) :
                   xml.vouchers[h].partyLedgerName = xml.vouchers[i].partyLedgerName
            THEN {}
            ELSE {xml.masters[k] : k \in {m \in 1..Len(xml.masters) :
                      /\ xml.masters[m].name = xml.vouchers[i].partyLedgerName
                      /\ xml.masters[m].parent
                             \in {"Sundry Creditors", "Sundry Debtors"}}}
    IN  Encoded => \A i \in 1..Len(xml.vouchers) :
            Len(CleanGstin(i)) # GstinLength =>
                /\ xml.vouchers[i].partyGstin = ""
                /\ \A m \in PartyMastersOf(i) :
                      m.partyGstin = "" /\ m.stateName = "Maharashtra"

(***************************************************************************)
(* Determinism of the two encoders.                                        *)
(***************************************************************************)
\* the invoice date the caller supplied, "" when it supplied none
RequestedDate == IF "invoice_date" \in DOMAIN invoice THEN invoice.invoice_date ELSE ""

C20_ExcelBalance ==
    ExcelEncoded =>
        /\ \A i \in 1..Len(xml.vouchers) :
              Abs(EntrySum(xml.vouchers[i].entries)) < 1
        /\ validate_amount_balance(xml).is_balanced

\* a batch of two vouchers, one of them a Sales voucher and one with an
\* Integrated-tax entry, each with a non-zero party amount
C20_Witness ==
    /\ ExcelEncoded
    /\ Len(xml.vouchers) = 2
    /\ \E i \in 1..2 : xml.vouchers[i].vchType = "Sales"
                       /\ Len(xml.vouchers[i].entries) >= 4
    /\ \E i \in 1..2 : \E e \in BucketAndTaxEntries(i) :
                           e.ledgerName = "Input IGST 18%" /\ e.amount < 0
    /\ \A i \in 1..2 : xml.vouchers[i].entries[1].amount > 0
    /\ validate_amount_balance(xml).amount_count >= 7

(***************************************************************************)
(* The text functions.                                                     *)
(***************************************************************************)
\* the text function f has been called on text_arg
Applied(f) == fn = f /\ calls >= 1

(***************************************************************************)
(* C21 - For every input, clean_name (tally_service and                    *)
(* TallyBackendService) returns at most 50 characters, all of them         *)
(* letters, digits, spaces, hyphens, periods, parentheses or percent       *)
(* signs, with internal whitespace collapsed, and never the empty string:  *)
(* an empty name and a name of disallowed characters only yield the        *)
(* placeholder.                                                            *)
(* tally_service.clean_name returns "" for a name that has no allowed      *)
(* character; TallyBackendService.clean_name keeps runs of blanks and      *)
(* tabs.                                                                   *)
(***************************************************************************)
C21_CleanName ==
    LET out == returned.value
        Placeholder == IF fn = "clean_name" THEN "Unknown Item" ELSE "Unnamed"
        NameChar(c) ==
            \/ InStr(c, LowerChars) \/ InStr(c, UpperChars)
            \/ InStr(c, DigitChars) \/ InStr(c, " -.()%")
    IN  (Applied("clean_name") \/ Applied("TallyBackendService.clean_name")) =>
            /\ Len(out) <= NameLimit
            /\ \A i \in 1..Len(out) : NameChar(SubSeq(out, i, i))
            /\ \A i \in 1..(Len(out) - 1) : SubSeq(out, i, i + 1) # "  "
            /\ out # ""
            /\ (\A i \in 1..Len(text_arg) : ~NameChar(SubSeq(text_arg, i, i)))
                   => out = Placeholder

(***************************************************************************)
(* C22 - format_date_for_xml returns a string of eight digits for every    *)
(* input: the digits of a YYYY-MM-DD date in the same order, year then     *)
(* zero-padded month then zero-padded day of a D-M-YYYY date, and the      *)
(* current date for an empty or unparseable input.                         *)
(* A date followed by a line break passes the first pattern and keeps the  *)
(* line break in the result.                                               *)
(***************************************************************************)
C22_EightDigitDate ==
    LET out == returned.value
        Tabulated ==
            [ arg \in {"2025-01-31", "31-01-2025", "31/01/2025"} |-> "20250131" ]
            @@ [ arg \in {"1-2-2025"} |-> "20250201" ]
            @@ [ arg \in {"5.1.2025"} |-> "20250105" ]
            @@ [ arg \in {"", "   ", "@@@", "Acme Traders", "31 Jan 2025",
                          "2025-1-5", "31-01-25", "&amp;"} |-> today ]
    IN  Applied("format_date_for_xml") =>
            /\ Len(out) = 8
            /\ \A i \in 1..Len(out) : InStr(SubSeq(out, i, i), DigitChars)
            /\ text_arg \in DOMAIN Tabulated => out = Tabulated[text_arg]

(***************************************************************************)
(* C24 - esc and TallyBackendService.escape_xml replace the ampersand      *)
(* first, then <, > and the double quote by their entities and an          *)
(* apostrophe by a space: the escaped text is the input with each of these *)
(* characters replaced exactly once, and it contains no raw <, >, double   *)
(* quote or apostrophe.                                                    *)
(* TallyBackendService.escape_xml writes the entity &apos; for an          *)
(* apostrophe.                                                             *)
(***************************************************************************)
C24_EscapeOnce ==
    LET out == returned.value
        Replacement(c) ==
            CASE c = "&" -> "&amp;"
              [] c = "<" -> "&lt;"
              [] c = ">" -> "&gt;"
              [] c = Quote -> "&quot;"
              [] c = "'" -> " "
              [] OTHER -> c
        Escaped[i \in 0..Len(text_arg)] ==
            IF i = 0 THEN ""
            ELSE Escaped[i - 1] \o Replacement(SubSeq(text_arg, i, i))
    IN  (Applied("esc") \/ Applied("TallyBackendService.escape_xml")) =>
            /\ out = Escaped[Len(text_arg)]
            /\ \A i \in 1..Len(out) :
                   ~InStr(SubSeq(out, i, i), "<>'" \o Quote)

(***************************************************************************)
(* The bank statement encoder.                                             *)
(***************************************************************************)
(***************************************************************************)
(* C23 - generate_bank_statement_xml emits exactly one voucher per         *)
(* transaction, in input order, each with a bank leg and a contra leg:     *)
(* Payment: bank = -|debit|, contra = +|debit|; Receipt: bank = +|credit|, *)
(* contra = -|credit|; Contra: bank = +|credit| if a credit is present,    *)
(* else -|debit|, and contra = -(bank).  The two legs of every voucher sum *)
(* to exactly zero.                                                        *)
(***************************************************************************)
C23_BankLegs ==
    LET txs == bank_data.transactions
        Field(tx, name, default) ==
            IF name \in DOMAIN tx THEN tx[name] ELSE default
        Bank(tx) ==
            LET debit == Field(tx, "debit", 0)
                credit == Field(tx, "credit", 0)
            IN  CASE tx.type = "Payment" -> -Abs(debit)
                  [] tx.type = "Receipt" -> Abs(credit)
                  [] tx.type = "Contra" ->
                         IF credit # 0 THEN Abs(credit) ELSE -Abs(debit)
    IN  (fn = "generate_bank_statement_xml" /\ calls >= 1) =>
            /\ Len(xml.vouchers) = Len(txs)
            /\ \A i \in 1..Len(txs) :
                   LET legs == xml.vouchers[i].entries
                   IN  /\ Len(legs) = 2
                       /\ legs[1].amount + legs[2].amount = 0
                       /\ Field(txs[i], "description", "") # "" =>
                              xml.vouchers[i].narration = esc(txs[i].description)
                       /\ ("type" \in DOMAIN txs[i]
                               /\ txs[i].type \in {"Payment", "Receipt", "Contra"}) =>
                              /\ legs[1].amount = Bank(txs[i])
                              /\ legs[2].amount = -Bank(txs[i])

\* a statement of two transactions, a receipt and then a contra without a
\* credit, was encoded
C23_Witness ==
    /\ fn = "generate_bank_statement_xml" /\ calls >= 1
    /\ Len(bank_data.transactions) = 2
    /\ bank_data.transactions[1].description = "NEFT <ACME> & Co"
    /\ bank_data.transactions[2].description = "Cash deposit"
    /\ xml.vouchers[1].narration = "NEFT &lt;ACME&gt; &amp; Co"
    /\ xml.vouchers[2].entries[2].text = "700.1"
    /\ xml.vouchers[1].entries[1].amount > 0
    /\ xml.vouchers[2].entries[1].amount < 0

(***************************************************************************)
(* Masters before vouchers.                                                *)
(***************************************************************************)
(***************************************************************************)
(* C25 - Every ledger name a voucher of generate_tally_xml refers to (its  *)
(* PARTYLEDGERNAME and the LEDGERNAME of each of its ledger entries) is in *)
(* the known-ledger set or is created by a LEDGER master of the same       *)
(* document, for line items with non-negative tax rates; the same holds    *)
(* for every voucher of generate_excel_import_xml with create_masters set. *)
(***************************************************************************)
C25_ReferencedLedgersExist ==
    LET Known == IF fn = "generate_tally_xml" THEN existing_ledgers ELSE {}
        Created == {xml.masters[m].name :
                        m \in {k \in 1..Len(xml.masters) : xml.masters[k].tag = "LEDGER"}}
        Referenced(v) ==
            {v.partyLedgerName} \cup {v.entries[j].ledgerName : j \in 1..Len(v.entries)}
        NonNegativeRates ==
            \A k \in 1..Len(line_items) : Get(line_items[k], "gst_rate", 0) >= 0
    IN  ((TallyEncoded /\ NonNegativeRates) \/ (ExcelEncoded /\ create_masters)) =>
            \A i \in 1..Len(xml.vouchers) :
                Referenced(xml.vouchers[i]) \subseteq (Known \cup Created)

\* the party of the voucher is known and gets no master, the 9% state tax
\* ledger is not known and is created by the document
C25_Witness ==
    /\ TallyEncoded
    /\ xml.vouchers[1].partyLedgerName \in existing_ledgers
    /\ "Input SGST@9%" \notin existing_ledgers
    /\ \E j \in 1..Len(xml.vouchers[1].entries) :
           xml.vouchers[1].entries[j].ledgerName = "Input SGST@9%"
    /\ \E m \in 1..Len(xml.masters) :
           xml.masters[m].tag = "LEDGER" /\ xml.masters[m].name = "Input SGST@9%"
    /\ \A m \in 1..Len(xml.masters) :
           xml.masters[m].name # xml.vouchers[1].partyLedgerName

(***************************************************************************)
(* The totals endpoint.                                                    *)
(***************************************************************************)
(***************************************************************************)
(* C26 - calculate_totals and the voucher encoder agree on the same        *)
(* intra-state line items (amount, gstRate): the cgst and sgst returned    *)
(* for a line add up to round(amount x gstRate / 100, 2), and the returned *)
(* total is the party AMOUNT generate_tally_xml renders for those lines.   *)
(* calculate_totals rounds the two halves of a line's tax separately, so a *)
(* tax with an odd number of paise comes out one paisa higher.             *)
(***************************************************************************)
C26_TotalsAgreeWithEncoder ==
    LET totals == returned.value
        \* the same lines as the encoder takes them: one unit at the amount
        EncoderItems ==
            [i \in 1..Len(line_items) |->
                [qty |-> 1 * QtyUnit, rate |-> line_items[i].amount,
                 gst_rate |-> line_items[i].gstRate]]
        EncoderDocument == generate_tally_xml([invoice_number |-> "INV-1"], EncoderItems,
                                       {}, today, 0)
    IN  (fn = "calculate_totals" /\ calls >= 1) =>
            /\ \A i \in 1..Len(line_items) :
                   totals.lineItemTotals[i].cgst + totals.lineItemTotals[i].sgst
                       = RoundHalfUp(line_items[i].amount * line_items[i].gstRate,
                                     100 * RateUnit)
            /\ totals.total = EncoderDocument.vouchers[1].entries[1].amount

(***************************************************************************)
(* The retry wrapper, the parsers and the request handlers.                *)
(***************************************************************************)
(***************************************************************************)
(* C29 - A function wrapped by retry_with_backoff(max_attempts = n,        *)
(* base_delay = d), n >= 1, is invoked at most n times per call and the    *)
(* call ends: it returns the result of the first invocation that does not  *)
(* raise and invokes nothing after it; if all n invocations raise it       *)
(* raises the exception of the n-th; it sleeps d x 2^k after the failed    *)
(* attempt k (k = 0 .. n-2) and never after the last attempt.              *)
(***************************************************************************)
C29_BoundedRetry ==
    LET n == max_attempts
        Succeeds == {k \in 1..n : ~service[k].raised}
        first == CHOOSE k \in Succeeds : \A j \in Succeeds : k <= j
    IN  (fn = "retry_with_backoff" /\ calls >= 1) =>
            /\ returned # NoReturn
            /\ invocations \in 1..n
            /\ Succeeds # {} =>
                   /\ invocations = first
                   /\ returned = [raised |-> FALSE, value |-> service[first].value]
            /\ Succeeds = {} =>
                   /\ invocations = n
                   /\ returned = [raised |-> TRUE, value |-> service[n].value]
            /\ Len(sleeps) = invocations - 1
            /\ \A k \in 0..(invocations - 2) : sleeps[k + 1] = base_delay * 2^k

\* three attempts with a delay of 2: two different exceptions, then a result
\* after sleeps of 2 and 4
C29_Witness ==
    /\ fn = "retry_with_backoff" /\ calls >= 1
    /\ max_attempts = 3 /\ base_delay = 2
    /\ service[1].raised /\ service[2].raised /\ service[1] # service[2]
    /\ ~service[3].raised
    /\ invocations = 3
    /\ sleeps = <<2, 4>>
    /\ returned = service[3]

(***************************************************************************)
(* C27 - Every file parse_invoice_with_gemini or                           *)
(* parse_bank_statement_with_gemini uploads to the model service is        *)
(* cleaned up before the function returns, on success and on every error   *)
(* path: cleanup_uploaded_file was called for it and its URI is no longer  *)
(* in _uploaded_files.                                                     *)
(* An exception raised by generate_content after the upload is caught by   *)
(* the outer handler, which returns the error without a cleanup.           *)
(***************************************************************************)
C27_UploadsCleanedUp ==
    LET Uploaded ==
            {Uri(c * RetryAttempts + k) : c \in 0..(calls - 1),
                 k \in {j \in 1..invocations :
                            service[j] \notin {"unsupported_type", "upload_raises"}}}
    IN  (fn \in ParseFunctions /\ calls >= 1) =>
            \A uri \in Uploaded :
                /\ uri \in cleanup_calls
                /\ \A i \in 1..Len(_uploaded_files) : _uploaded_files[i] # uri

(***************************************************************************)
(* C30 - When the upload or the model call inside                          *)
(* parse_invoice_with_gemini or parse_bank_statement_with_gemini fails     *)
(* with an exception, the retry_with_backoff(max_attempts=3) decorator     *)
(* invokes the function again: an attempt that failed that way is followed *)
(* by another one until three attempts were made.                          *)
(* The body catches every exception itself and returns an error            *)
(* dictionary, so the decorator sees a normal return and never retries.    *)
(***************************************************************************)
C30_RetriedOnException ==
    LET FailsWithException(k) == service[k] \in {"upload_raises", "generate_raises"}
    IN  (fn \in ParseFunctions /\ calls >= 1) =>
            \A k \in 1..(RetryAttempts - 1) :
                (\A j \in 1..k : FailsWithException(j)) => invocations > k

(***************************************************************************)
(* C28 - When process_invoice or process_bank_statement finishes, on any   *)
(* path (parsed, 422, 500, or a failure while the upload is being saved),  *)
(* no file written by that request remains in the upload directory,        *)
(* provided the removal itself does not fail.                              *)
(* A failure of the copy loop of save_upload_file leaves the file it has   *)
(* created, and the handler, which never learnt its name, removes nothing. *)
(***************************************************************************)
C28_NoFileLeftBehind ==
    (fn \in Handlers /\ calls >= 1 /\ service.remove = "ok") =>
        written \cap upload_dir = {}
====
